---- MODULE Spec2Model ----
(***************************************************************************)
(* GridZer0 Discord bot: the confirm-then-process workflow shared by the   *)
(* pdf, docx, image-batch, video and YouTube handlers (options view,       *)
(* create_thread_with_retry, delivery, cleanup), the on_message            *)
(* dispatcher, and the thread-name truncation.                             *)
(*                                                                         *)
(* Every await of a coroutine is one step of wf.pc; the result of an       *)
(* external call (Discord API, fitz, ffmpeg) is a nondeterministic choice. *)
(* interaction.response.edit_message and the edits of the status message   *)
(* made before the final one are taken to succeed; the final edit and the  *)
(* edit of an except clause may succeed, raise NotFound (the status        *)
(* message is gone) or raise another error.                                *)
(***************************************************************************)
EXTENDS Integers, Sequences, FiniteSets, TLC

\* ---- bounds of the model ------------------------------------------------
MaxPages == 3      \* pages / images / video segments of one content item
MaxPresses == 2    \* button presses delivered to one options view
MaxNameLen == 104  \* length of a file name or video title
MaxDispatch == 2   \* runs of on_message for one message
MaxSizeSteps == 17 \* file sizes up to 8 * MaxSizeSteps MB (and a little over)
MaxDurSteps == 22  \* durations up to 180 * MaxDurSteps seconds (and a little over)

\* ---- program constants --------------------------------------------------
max_retries == 3
initial_retry_delay == 2
MAX_SEGMENT_SIZE_MB == 8

Kinds == {"pdf", "docx", "image", "video", "youtube"}
RetryKinds == {"pdf", "docx", "image", "video"}
PageKinds == {"pdf", "docx", "image"}

VARIABLES
  view,  \* the options view of one content item:
         \*   kind            which handler owns it
         \*   npages          number of artifacts the conversion yields
         \*   button_clicked  View.button_clicked
         \*   use_thread      argument of process_*
         \*   presses         button presses received so far
         \*   lateDefer       a press was deferred while the workflow ran
         \*   started         number of times process_* was entered
         \*   timedOut        on_timeout ran for a view a button of which had
         \*                   been pressed
  ct,    \* create_thread_with_retry:
         \*   attempt, retry_delay  its locals
         \*   creates         calls of channel.create_thread
         \*   forbids         calls that raised discord.Forbidden
         \*   others          calls that raised another exception
         \*   slept           backoff delays waited, in order
         \*   ret             "unset" | "thread" | "none" (None) | "raised"
         \*   notifDeleted    messages the notification scan deleted
  wf,    \* process_* and the platform objects it acts on:
         \*   pc              position of the coroutine
         \*   target          "unset" | "channel" | "thread"
         \*   final_message   "unset" | "none" | "warning" | "mention"
         \*   threadExists    a thread created by this workflow exists
         \*   status          content of processing_msg
         \*   statusExists    processing_msg has not been deleted
         \*   statusGone      an edit of processing_msg raised NotFound
         \*   escaped         an exception left process_*
         \*   resendFailed    a send of the status text to the channel raised
         \*   exc             the except clause entered ("none" if none)
         \*   rl, retries     rate-limit responses to artifact sends, retries
         \*   failedAt        ordinal of the first artifact whose send failed
         \*                   with an error other than a rate limit (0: none)
         \*   sent            messages sent, in order
         \*   idx             index of the delivery loop
         \*   succ            successful_uploads of handle_large_video
         \*   small           processed_size <= DISCORD_SIZE_LIMIT_MB
         \*   srcDeleted      the source message was deleted
         \*   delForbidden    the deletion of the source message raised
         \*                   discord.Forbidden
         \*   inflight        the item's id is in the handler's processed set
         \*   outcome         "none" | "Done" | "Failed"
         \*   cause           why the workflow failed
         \*   fault           some external call of this workflow failed
  disp,  \* on_message and the handlers' entry functions, for one message:
         \*   msg             what the message holds
         \*   dpc             position of each run of on_message
         \*   pdfSet          message.id in _processed_pdf_messages
         \*   fileSet         attachment.id in processed_files (mp4 handler)
         \*   prompts         options views / status messages presented, per kind
         \*   began           workflows each run of on_message started
         \*   last            the latest handler call and what it did
  tn,    \* the naming of a thread:
         \*   handler, raw, count   the handler and its inputs
         \*   full            the name before truncation
         \*   name            the name passed to create_thread
         \*   phase           "input" | "named"
  md,    \* get_website_metadata and create_referral_embed for one URL:
         \*   domain          urlparse(url).netloc
         \*   selenium        SELENIUM_AVAILABLE
         \*   out             what each fetch strategy yields for the URL
         \*   html            the local html is not empty
         \*   metadata        the local metadata
         \*   tried           the strategies called so far
         \*   embed           the embed built from the returned metadata
         \*   phase           position in get_website_metadata
  sg,    \* the cutting of a large video into segments (handle_large_video):
         \*   size2           the file size in half megabytes
         \*   dur2            total_seconds in half seconds
         \*   segments        the number of segments
         \*   i               the index of the segment being made
         \*   passes          compressions of segment i after its creation
         \*   maxPasses       the most such compressions any segment got
         \*   nfiles          len(segment_files)
         \*   over            an entry of segment_files is larger than the budget
         \*   phase           position in handle_large_video
  ch     \* two content items handled at the same time in one channel:
         \*   w               the workflow of each item: kind, use_thread,
         \*                   nameHasThread ("thread" occurs in the thread
         \*                   name), pc, status, statusExists, thread,
         \*                   final (final_message), delivered, outcome
         \*   hist            the messages of the channel, oldest first
         \*   pdfSet          _processed_pdf_messages
         \*   fileSet         processed_files
         \*   lost            the messages a notification scan deleted: who
         \*                   scanned, whose message, which message

vars == <<view, ct, wf, disp, tn, md, sg, ch>>

\* One message sent to a channel or thread; n is the ordinal of a page or
\* segment and 0 for every other item.
Msg(to, item, n) == [to |-> to, item |-> item, n |-> n]

CtInit ==
  ct = [attempt |-> 0, retry_delay |-> initial_retry_delay, creates |-> 0,
        forbids |-> 0, others |-> 0, slept |-> <<>>, ret |-> "unset",
        notifDeleted |-> 0]

\* The state after handle_* has presented the options view.
WfInit ==
  /\ \E k \in Kinds, n \in 1..MaxPages :
       /\ (k = "image" => n >= 2)
       /\ view = [kind |-> k, npages |-> n, button_clicked |-> FALSE,
                  use_thread |-> FALSE, presses |-> 0, lateDefer |-> FALSE,
                  started |-> 0, timedOut |-> FALSE]
       /\ wf = [pc |-> "prompt", target |-> "unset", final_message |-> "unset",
                threadExists |-> FALSE, status |-> "prompt",
                statusExists |-> TRUE, statusGone |-> FALSE, escaped |-> FALSE,
                resendFailed |-> FALSE, exc |-> "none", rl |-> 0, retries |-> 0, failedAt |-> 0,
                sent |-> <<>>, idx |-> 0, succ |-> 0,
                small |-> TRUE, srcDeleted |-> FALSE, delForbidden |-> FALSE,
                inflight |-> (k \in {"pdf", "video"}),
                outcome |-> "none", cause |-> "none", fault |-> FALSE]
  /\ CtInit

\* ---- the options view ---------------------------------------------------

\* (variant: the guard on button_clicked is missing)
AlreadyClicked_Never(clicked) == FALSE

\* `if self.button_clicked: await interaction.response.defer(); return'
AlreadyClicked(clicked) == clicked

\* (variant: every options view is given the 60-second timeout)
HasTimeout_Every(kind) == TRUE

\* `super().__init__(timeout=60)' of YouTubeOptionsView; the other views
\* pass timeout=None
HasTimeout(kind) == kind = "youtube"

\* YouTubeOptionsView.on_timeout, for a view no button of which was pressed:
\* `await self.processing_msg.delete()'.  A view that timed out dispatches no
\* further button press.
ViewTimeout ==
  /\ HasTimeout(view.kind)
  /\ wf.pc = "prompt"
  /\ wf' = [wf EXCEPT !.pc = "withdrawn", !.statusExists = FALSE]
  /\ UNCHANGED <<view, ct, disp, tn, md, sg, ch>>

\* YouTubeOptionsView.on_timeout for a view a button of which was pressed.
\* The callbacks never stop the view, so its 60 seconds run again from the
\* last press and elapse while process_youtube runs or after it ended;
\* on_timeout does not look at button_clicked:
\* `try: await self.processing_msg.delete() except: pass'.
LateTimeout ==
  /\ HasTimeout(view.kind)
  /\ view.button_clicked
  /\ ~view.timedOut
  /\ view' = [view EXCEPT !.timedOut = TRUE]
  /\ wf' = [wf EXCEPT !.statusExists = FALSE]
  /\ UNCHANGED <<ct, disp, tn, md, sg, ch>>

\* create_thread / post_here button callbacks up to their first await
Press(choice) ==
  /\ view.presses < MaxPresses
  /\ wf.pc # "withdrawn"
  /\ ~view.timedOut
  /\ IF AlreadyClicked(view.button_clicked)
     THEN /\ view' = [view EXCEPT !.presses = @ + 1,
                        !.lateDefer = @ \/ wf.pc \notin {"prompt", "ack", "done"}]
          /\ UNCHANGED wf
     ELSE /\ view' = [view EXCEPT !.presses = @ + 1, !.button_clicked = TRUE,
                        !.use_thread = choice]
          /\ wf' = [wf EXCEPT !.pc = "ack"]
  /\ UNCHANGED <<ct, disp, tn, md, sg, ch>>

\* `await interaction.response.edit_message(view=self)' returned:
\* process_*(use_thread) is entered
Ack ==
  /\ wf.pc = "ack"
  /\ view' = [view EXCEPT !.started = @ + 1]
  /\ wf' = [wf EXCEPT !.pc = "start"]
  /\ UNCHANGED <<ct, disp, tn, md, sg, ch>>

\* ---- the except / finally clauses of process_* --------------------------

\* `finally: _processed_pdf_messages.remove(self.message.id)' (pdf only;
\* processed_files of the video handler is never shrunk)
Finally(w) == [w EXCEPT !.pc = "done",
                        !.inflight = IF view.kind = "pdf" THEN FALSE ELSE @]

\* An except clause is entered: the clause, the cause of the failure
Raise(w, exc, c) ==
  [w EXCEPT !.pc = "except", !.exc = exc, !.cause = c, !.fault = TRUE]

\* `except Forbidden' of process_pdf / process_docx / process_images
ExceptForbidden(w) == Raise(w, "forbidden", "permission")

\* `except asyncio.TimeoutError' of process_pdf
ExceptTimeout(w) == Raise(w, "timeout", "timeout")

\* `except Exception' of process_pdf / process_docx / process_images /
\* process_youtube
ExceptGeneric(w, c) == Raise(w, "generic", c)

\* `except Exception' of process_video
ExceptVideo(w, c) == Raise(w, "video", c)

\* `except Exception' of handle_large_video
ExceptLarge(w, c) == Raise(w, "large", c)

EditOutcomes == {"ok", "notfound", "error"}

\* an edit of a status message that no longer exists raises NotFound
EditOutcome(w, o) == IF w.statusExists THEN o ELSE "notfound"

\* the status message was found missing
Gone(w) ==
  [w EXCEPT !.statusGone = @ \/ w.statusExists, !.statusExists = FALSE,
            !.fault = TRUE]

\* (variant: every except clause writes the same text)
ErrorText_Same(exc) == "error"

\* the error text each except clause writes to the status message
ErrorText(exc) ==
  CASE exc = "forbidden" -> "perm_error"
    [] exc = "timeout" -> "timeout_error"
    [] exc = "large" -> "error_large"
    [] OTHER -> "error"

\* the except clauses that go on to delete the thread: `except Exception' of
\* process_*; not `except Forbidden', `except asyncio.TimeoutError' or the
\* except clause of handle_large_video
RollsBack(exc) == exc \in {"generic", "video"}

\* `isinstance(target, discord.Thread)' (process_video: `thread_ref')
HoldsThread(w) ==
  IF view.kind = "video" THEN ct.ret = "thread" ELSE w.target = "thread"

\* the body of the except clause: the edit of the status message to the
\* error text (pdf: safe_edit_processing_msg, which sends the text to the
\* channel when the edit raises), then the deletion of the thread, then
\* `finally'.  An edit that raises leaves the clause (for handle_large_video
\* it then reaches `except Exception' of process_video, whose edit raises
\* likewise).
ErrorEdit ==
  /\ wf.pc = "except"
  /\ \E o \in EditOutcomes, sendOK \in BOOLEAN :
       LET eo == EditOutcome(wf, o)
           edited == eo = "ok"
           resent == view.kind = "pdf" /\ ~edited /\ sendOK
           escapes == ~edited /\ ~resent
           w0 == IF eo = "notfound" THEN Gone(wf) ELSE wf
       IN  wf' = Finally(
             [w0 EXCEPT
                !.status = IF edited THEN ErrorText(wf.exc) ELSE @,
                !.sent = IF resent
                         THEN Append(@, Msg("channel", "error_text", 0)) ELSE @,
                !.escaped = escapes,
                !.resendFailed = @ \/ (view.kind = "pdf" /\ ~edited /\ ~sendOK),
                !.threadExists =
                   IF ~escapes /\ RollsBack(wf.exc) /\ view.use_thread
                      /\ HoldsThread(wf)
                   THEN FALSE ELSE @,
                !.outcome = "Failed"])
  /\ UNCHANGED <<view, ct, disp, tn, md, sg, ch>>

\* ---- process_*: from entry to the choice of the target -------------------

\* the first edit of processing_msg and the statements up to the next await
Start ==
  /\ wf.pc = "start"
  /\ wf' =
       CASE view.kind = "pdf" ->
              [wf EXCEPT !.status = "converting", !.target = "channel",
                         !.final_message = "none",
                         !.pc = IF view.use_thread THEN "ct_call" ELSE "open"]
         [] view.kind \in {"docx", "video"} ->
              [wf EXCEPT !.status = "converting", !.pc = "convert"]
         [] view.kind = "image" ->
              IF view.use_thread
              THEN [wf EXCEPT !.status = "processing", !.pc = "ct_call"]
              ELSE [wf EXCEPT !.status = "processing", !.target = "channel",
                              !.final_message = "none", !.idx = 1, !.pc = "post"]
         [] view.kind = "youtube" ->
              IF view.use_thread
              THEN [wf EXCEPT !.status = "processing", !.pc = "yt_anchor"]
              ELSE [wf EXCEPT !.status = "processing", !.target = "channel",
                              !.final_message = "none", !.pc = "yt_url"]
  /\ UNCHANGED <<view, ct, disp, tn, md, sg, ch>>

\* docx: convert_docx_to_images and `if not images: raise ValueError';
\* video: process_video (ffmpeg) and the size of its output
Convert ==
  /\ wf.pc = "convert"
  /\ \E ok \in BOOLEAN, sm \in BOOLEAN :
       wf' =
         IF view.kind = "docx"
         THEN IF ~ok THEN ExceptGeneric(wf, "conversion")
              ELSE IF view.use_thread THEN [wf EXCEPT !.pc = "ct_call"]
              ELSE [wf EXCEPT !.target = "channel", !.final_message = "none",
                              !.idx = 1, !.pc = "post"]
         ELSE IF ~ok THEN ExceptVideo(wf, "conversion")
              ELSE IF view.use_thread
              THEN [wf EXCEPT !.status = "processed", !.small = sm, !.pc = "ct_call"]
              ELSE [wf EXCEPT !.status = "processed", !.small = sm,
                              !.target = "channel",
                              !.pc = IF sm THEN "upload" ELSE "large"]
  /\ UNCHANGED <<view, ct, disp, tn, md, sg, ch>>

\* ---- create_thread_with_retry --------------------------------------------

\* (variant: the delay is not doubled)
NextDelay_Constant(d) == d

\* `retry_delay *= 2'
NextDelay(d) == d * 2

\* `if attempt == max_retries - 1: return None'
LastAttempt(a) == a = max_retries - 1

\* (variant: only discord.Forbidden is caught, any other exception leaves
\* create_thread_with_retry)
OnCreateError_Uncaught(o, a) ==
  IF o = "forbidden"
  THEN IF a = max_retries - 1 THEN "return_none" ELSE "retry"
  ELSE "raise"

\* (variant: every failed creation call is retried)
OnCreateError_RetryAll(o, a) ==
  IF a = max_retries - 1 THEN "return_none" ELSE "retry"

\* what the except clauses do with a failed creation call:
\* `except discord.Forbidden' retries unless it was the last attempt,
\* `except Exception' returns None
OnCreateError(o, a) ==
  IF o = "forbidden"
  THEN IF LastAttempt(a) THEN "return_none" ELSE "retry"
  ELSE "return_none"

\* one `await self.message.channel.create_thread(...)' of the retry loop
CtCall ==
  /\ wf.pc = "ct_call"
  /\ ct.attempt < max_retries
  /\ \E o \in {"ok", "forbidden", "other"} :
       IF o = "ok"
       THEN /\ ct' = [ct EXCEPT !.creates = @ + 1]
            /\ wf' = [wf EXCEPT !.threadExists = TRUE, !.pc = "ct_notify"]
       ELSE LET act == OnCreateError(o, ct.attempt) IN
            /\ ct' = [ct EXCEPT !.creates = @ + 1,
                        !.forbids = IF o = "forbidden" THEN @ + 1 ELSE @,
                        !.others = IF o = "other" THEN @ + 1 ELSE @,
                        !.ret = CASE act = "return_none" -> "none"
                                  [] act = "raise" -> "raised"
                                  [] OTHER -> @]
            /\ wf' = [wf EXCEPT !.fault = TRUE,
                        !.pc = IF act = "retry" THEN "ct_sleep" ELSE "ct_ret"]
  /\ UNCHANGED <<view, disp, tn, md, sg, ch>>

\* `await asyncio.sleep(retry_delay); retry_delay *= 2' and the next
\* iteration of `for attempt in range(max_retries)'
CtSleep ==
  /\ wf.pc = "ct_sleep"
  /\ ct' = [ct EXCEPT !.slept = Append(@, ct.retry_delay),
              !.retry_delay = NextDelay(@),
              !.attempt = @ + 1,
              !.ret = IF ct.attempt + 1 < max_retries THEN @ ELSE "none"]
  /\ wf' = [wf EXCEPT !.pc = IF ct.attempt + 1 < max_retries
                              THEN "ct_call" ELSE "ct_ret"]
  /\ UNCHANGED <<view, disp, tn, md, sg, ch>>

\* (variant: an exception of the scan is not caught and reaches the
\* `except Exception' of the retry loop)
AfterNotify_Uncaught(n) == IF n = "raised" THEN "none" ELSE "thread"

\* `except Exception as e: logger.error(...)' around the scan, then
\* `return thread'
AfterNotify(n) == "thread"

\* (variant: the scan has no try of its own, and a discord.Forbidden of
\* `msg.delete()' reaches `except discord.Forbidden' of the retry loop)
AfterScan_Retry(n) == IF n = "raised" THEN "ct_sleep" ELSE "ct_ret"

\* the scan sits in its own `try ... except Exception', so whatever it does
\* the next statement is `return thread'
AfterScan(n) == "ct_ret"

\* after a successful creation: `await asyncio.sleep(2)', the scan of the
\* last 10 messages for the thread notification, `return thread'
CtNotify ==
  /\ wf.pc = "ct_notify"
  /\ \E n \in {"deleted", "not_found", "raised"} :
       /\ ct' = [ct EXCEPT !.ret = AfterNotify(n),
                   !.notifDeleted = IF n = "deleted" THEN @ + 1 ELSE @]
       /\ wf' = [wf EXCEPT !.pc = AfterScan(n),
                   !.fault = @ \/ n = "raised"]
  /\ UNCHANGED <<view, disp, tn, md, sg, ch>>

\* the caller's statements after `target = await self.create_thread_with_retry'
CtRet ==
  /\ wf.pc = "ct_ret"
  /\ LET got == ct.ret = "thread" IN
     wf' =
       CASE view.kind = "pdf" ->
              [wf EXCEPT !.target = IF got THEN "thread" ELSE "channel",
                         !.final_message = IF got THEN "mention" ELSE "warning",
                         !.pc = IF got THEN "first_page" ELSE "open"]
         [] view.kind = "docx" ->
              [wf EXCEPT !.target = IF got THEN "thread" ELSE "channel",
                         !.final_message = IF got THEN "mention" ELSE "warning",
                         !.idx = 1,
                         !.pc = IF got THEN "post_first" ELSE "post"]
         [] view.kind = "image" ->
              [wf EXCEPT !.target = IF got THEN "thread" ELSE "channel",
                         !.final_message = IF got THEN "mention" ELSE "warning",
                         !.idx = 1, !.pc = "post"]
         [] view.kind = "video" ->
              [wf EXCEPT !.target = IF got THEN "thread" ELSE "channel",
                         !.status = IF got THEN "created_thread" ELSE "warning",
                         !.pc = IF wf.small THEN "upload" ELSE "large"]
  /\ UNCHANGED <<view, ct, disp, tn, md, sg, ch>>

\* ---- delivery: pdf -------------------------------------------------------

SendOutcomes == {"ok", "ratelimit", "forbidden", "http"}

\* bookkeeping of a send of artifact i that raised: a rate-limit response
\* (HTTPException with code 429) or another error
SendFailed(w, o, i) ==
  IF o = "ratelimit"
  THEN [w EXCEPT !.rl = @ + 1, !.fault = TRUE]
  ELSE [w EXCEPT !.failedAt = IF @ = 0 THEN i ELSE @, !.fault = TRUE]

\* `start_idx = 1 if use_thread and isinstance(target, discord.Thread) else 0'
\* and `if i <= start_idx and use_thread: continue'
SkipPage(i, useThread, tgt) ==
  LET start_idx == IF useThread /\ tgt = "thread" THEN 1 ELSE 0
  IN  i <= start_idx /\ useThread

\* process_pdf: `first_page = await self.get_first_page(pdf_bytes)' and, if
\* it is not None, its send to the new thread as page_1.png
FirstPage ==
  /\ wf.pc = "first_page"
  /\ \E got \in BOOLEAN, o \in SendOutcomes :
       wf' =
         IF ~got THEN [wf EXCEPT !.fault = TRUE, !.pc = "open"]
         ELSE CASE o = "ok" ->
                     [wf EXCEPT !.sent = Append(@, Msg(wf.target, "page", 1)),
                                !.pc = "open"]
                [] o = "forbidden" -> ExceptForbidden(SendFailed(wf, o, 1))
                [] OTHER -> ExceptGeneric(SendFailed(wf, o, 1), "delivery")
  /\ UNCHANGED <<view, ct, disp, tn, md, sg, ch>>

\* convert_and_upload_pdf: `doc = fitz.open(...)'; a failure is caught
\* inside, False is returned and process_pdf raises ValueError
Open ==
  /\ wf.pc = "open"
  /\ \E ok \in BOOLEAN :
       wf' = IF ok THEN [wf EXCEPT !.idx = 1, !.pc = "page"]
             ELSE ExceptGeneric(wf, "conversion")
  /\ UNCHANGED <<view, ct, disp, tn, md, sg, ch>>

\* convert_and_upload_pdf: one iteration of `for i, page in enumerate(doc, 1)'
\* (or the end of the loop, `return True')
Page ==
  /\ wf.pc = "page"
  /\ IF wf.idx > view.npages
     THEN wf' = [wf EXCEPT !.pc = "final_status"]
     ELSE IF SkipPage(wf.idx, view.use_thread, wf.target)
     THEN wf' = [wf EXCEPT !.idx = @ + 1]
     ELSE \E o \in SendOutcomes :
            wf' = CASE o = "ok" ->
                         [wf EXCEPT !.sent = Append(@, Msg(wf.target, "page", wf.idx)),
                                    !.idx = @ + 1]
                    [] o = "ratelimit" ->
                         [SendFailed(wf, o, wf.idx) EXCEPT !.pc = "page_retry"]
                    [] OTHER ->
                         ExceptGeneric(SendFailed(wf, o, wf.idx), "delivery")
  /\ UNCHANGED <<view, ct, disp, tn, md, sg, ch>>

\* `await asyncio.sleep(e.retry_after)' and the second send of the same page
PageRetry ==
  /\ wf.pc = "page_retry"
  /\ \E ok \in BOOLEAN :
       wf' = IF ok
             THEN [wf EXCEPT !.sent = Append(@, Msg(wf.target, "page", wf.idx)),
                             !.retries = @ + 1, !.idx = @ + 1, !.pc = "page"]
             ELSE ExceptGeneric([wf EXCEPT !.retries = @ + 1], "delivery")
  /\ UNCHANGED <<view, ct, disp, tn, md, sg, ch>>

\* asyncio.wait_for(convert_and_upload_pdf(...), timeout=300) expires
Timeout ==
  /\ view.kind = "pdf"
  /\ wf.pc \in {"open", "page", "page_retry"}
  /\ wf' = ExceptTimeout(wf)
  /\ UNCHANGED <<view, ct, disp, tn, md, sg, ch>>

\* ---- delivery: docx and image batch --------------------------------------

\* DOCXOptionsView.post_images: images[0] is sent to a new thread first
PostFirst ==
  /\ wf.pc = "post_first"
  /\ \E o \in SendOutcomes :
       wf' = IF o = "ok"
             THEN [wf EXCEPT !.sent = Append(@, Msg(wf.target, "page", 1)),
                             !.idx = 2, !.pc = "post"]
             ELSE ExceptGeneric(SendFailed(wf, o, 1), "delivery")
  /\ UNCHANGED <<view, ct, disp, tn, md, sg, ch>>

\* one iteration of the loop of post_images (docx: images[start_idx:],
\* image batch: sorted attachments), or its end
Post ==
  /\ wf.pc = "post"
  /\ IF wf.idx > view.npages
     THEN wf' = [wf EXCEPT !.pc = "final_status"]
     ELSE \E o \in SendOutcomes :
            wf' = IF o = "ok"
                  THEN [wf EXCEPT !.sent = Append(@, Msg(wf.target, "page", wf.idx)),
                                  !.idx = @ + 1]
                  ELSE ExceptGeneric(SendFailed(wf, o, wf.idx), "delivery")
  /\ UNCHANGED <<view, ct, disp, tn, md, sg, ch>>

\* ---- finalizing: pdf, docx, image batch ----------------------------------

\* (variant: the status message is edited, never deleted)
FinalStatusOf_KeepsMessage(w) == [w EXCEPT !.status = w.final_message]

\* `if final_message: await processing_msg.edit(content=final_message)
\*  else: await processing_msg.delete()'
FinalStatusOf(w) ==
  IF w.final_message # "none"
  THEN [w EXCEPT !.status = w.final_message]
  ELSE [w EXCEPT !.statusExists = FALSE]

\* process_pdf wraps the edit / delete in `try ... except NotFound: if
\* final_message: await self.message.channel.send(final_message)';
\* process_docx and process_images do not, and there every exception of the
\* edit / delete reaches `except Exception'
FinalStatus ==
  /\ wf.pc = "final_status"
  /\ \E o \in EditOutcomes, sendOK \in BOOLEAN :
       LET eo == EditOutcome(wf, o) IN
       wf' =
         CASE eo = "ok" -> [FinalStatusOf(wf) EXCEPT !.pc = "final_del"]
           [] eo = "notfound" /\ view.kind = "pdf" ->
                IF wf.final_message = "none"
                THEN [Gone(wf) EXCEPT !.pc = "final_del"]
                ELSE IF sendOK
                THEN [Gone(wf) EXCEPT
                        !.sent = Append(@, Msg("channel", "final_text", 0)),
                        !.pc = "final_del"]
                ELSE ExceptGeneric([Gone(wf) EXCEPT !.resendFailed = TRUE],
                                   "finalize")
           [] eo = "notfound" -> ExceptGeneric(Gone(wf), "finalize")
           [] OTHER -> ExceptGeneric(wf, "finalize")
  /\ UNCHANGED <<view, ct, disp, tn, md, sg, ch>>

\* `await self.message.delete()' inside its own try: Forbidden and any
\* other exception are logged
FinalDel ==
  /\ wf.pc = "final_del"
  /\ \E o \in {"ok", "forbidden", "error"} :
       wf' = Finally([wf EXCEPT !.srcDeleted = (o = "ok"),
                                !.delForbidden = (o = "forbidden"),
                                !.fault = @ \/ o # "ok",
                                !.outcome = "Done"])
  /\ UNCHANGED <<view, ct, disp, tn, md, sg, ch>>

\* ---- delivery: video ------------------------------------------------------

\* process_video, direct path: "Uploading video..." and the send of the file;
\* `except discord.HTTPException' hands over to handle_large_video
Upload ==
  /\ wf.pc = "upload"
  /\ \E ok \in BOOLEAN :
       wf' = IF ok
             THEN [wf EXCEPT !.status = "uploading",
                             !.sent = Append(@, Msg(wf.target, "file", 0)),
                             !.pc = "upload_warn"]
             ELSE [wf EXCEPT !.status = "uploading", !.fault = TRUE, !.pc = "large"]
  /\ UNCHANGED <<view, ct, disp, tn, md, sg, ch>>

\* direct path: the send of the "do not share" warning
UploadWarn ==
  /\ wf.pc = "upload_warn"
  /\ \E ok \in BOOLEAN :
       wf' = IF ok
             THEN [wf EXCEPT !.sent = Append(@, Msg(wf.target, "warn", 0)),
                             !.pc = "upload_del"]
             ELSE [wf EXCEPT !.fault = TRUE, !.pc = "large"]
  /\ UNCHANGED <<view, ct, disp, tn, md, sg, ch>>

\* (variant: no exception of the deletion is caught next to it)
ForbiddenCaught_Never(o) == FALSE

\* `except discord.Forbidden:' next to `await self.message.delete()' in
\* process_video and process_youtube
ForbiddenCaught(o) == o = "forbidden"

\* direct path: `await self.message.delete()'; Forbidden is printed, any
\* other HTTPException reaches the outer `except discord.HTTPException'
UploadDel ==
  /\ wf.pc = "upload_del"
  /\ \E o \in {"ok", "forbidden", "http"} :
       LET w == [wf EXCEPT !.delForbidden = (o = "forbidden")] IN
       wf' = CASE o = "ok" -> [w EXCEPT !.srcDeleted = TRUE, !.pc = "upload_status"]
               [] ForbiddenCaught(o) -> [w EXCEPT !.fault = TRUE, !.pc = "upload_status"]
               [] OTHER -> [w EXCEPT !.fault = TRUE, !.pc = "large"]
  /\ UNCHANGED <<view, ct, disp, tn, md, sg, ch>>

\* `if use_thread and thread_ref: edit(mention) else: delete()'
VideoStatusOf(w, partial) ==
  IF view.use_thread /\ ct.ret = "thread"
  THEN [w EXCEPT !.status = IF partial THEN "mention_partial" ELSE "mention"]
  ELSE [w EXCEPT !.statusExists = FALSE]

\* direct path: the final edit / delete; it is inside the `try' whose
\* `except discord.HTTPException' hands over to handle_large_video
UploadStatus ==
  /\ wf.pc = "upload_status"
  /\ \E o \in EditOutcomes :
       LET eo == EditOutcome(wf, o) IN
       wf' = CASE eo = "ok" ->
                    Finally([VideoStatusOf(wf, FALSE) EXCEPT !.outcome = "Done"])
               [] eo = "notfound" -> [Gone(wf) EXCEPT !.pc = "large"]
               [] OTHER -> [wf EXCEPT !.fault = TRUE, !.pc = "large"]
  /\ UNCHANGED <<view, ct, disp, tn, md, sg, ch>>

\* (variant: the segments go to the channel of the source message)
LargeTarget_Channel(tgt) == "channel"

\* `await self.handle_large_video(input_file, file_name, target, ...)': the
\* target of the segmented path is the target process_video resolved
LargeTarget(tgt) == tgt

\* handle_large_video up to the upload loop: the duration probe and the
\* creation of the segments (view.npages of them)
Large ==
  /\ wf.pc = "large"
  /\ \E ok \in BOOLEAN :
       wf' = IF ~wf.statusExists THEN ExceptLarge(wf, "finalize")
             ELSE IF ok
             THEN [wf EXCEPT !.status = "creating_segments", !.idx = 1,
                             !.target = LargeTarget(@),
                             !.succ = 0, !.pc = "seg"]
             ELSE ExceptLarge(wf, "conversion")
  /\ UNCHANGED <<view, ct, disp, tn, md, sg, ch>>

\* one iteration of `for i, segment_file in enumerate(segment_files)', or
\* the end of the loop
Seg ==
  /\ wf.pc = "seg"
  /\ IF wf.idx > view.npages
     THEN wf' = [wf EXCEPT !.pc = "large_warn"]
     ELSE \E o \in {"ok", "ratelimit", "http"} :
            wf' = IF o = "ok"
                  THEN [wf EXCEPT !.status = "uploading_segment",
                                  !.sent = Append(@, Msg(wf.target, "segment", wf.idx)),
                                  !.succ = @ + 1, !.idx = @ + 1]
                  ELSE [SendFailed(wf, o, wf.idx) EXCEPT
                           !.status = "uploading_segment", !.pc = "seg_note"]
  /\ UNCHANGED <<view, ct, disp, tn, md, sg, ch>>

\* `except discord.HTTPException: await target.send("Failed to upload
\* segment ...")'; the loop then goes on with the next segment
SegNote ==
  /\ wf.pc = "seg_note"
  /\ \E ok \in BOOLEAN :
       wf' = IF ok
             THEN [wf EXCEPT !.sent = Append(@, Msg(wf.target, "segment_failed", 0)),
                             !.idx = @ + 1, !.pc = "seg"]
             ELSE ExceptLarge(wf, "delivery")
  /\ UNCHANGED <<view, ct, disp, tn, md, sg, ch>>

\* the warning sent after the segments
LargeWarn ==
  /\ wf.pc = "large_warn"
  /\ \E ok \in BOOLEAN :
       wf' = IF ok
             THEN [wf EXCEPT !.sent = Append(@, Msg(wf.target, "warn", 0)),
                             !.pc = "large_status"]
             ELSE ExceptLarge(wf, "delivery")
  /\ UNCHANGED <<view, ct, disp, tn, md, sg, ch>>

LargeStatus ==
  /\ wf.pc = "large_status"
  /\ \E o \in EditOutcomes :
       LET eo == EditOutcome(wf, o) IN
       wf' = CASE eo = "ok" ->
                    [VideoStatusOf(wf, wf.succ # view.npages) EXCEPT
                        !.pc = "large_del"]
               [] eo = "notfound" -> ExceptLarge(Gone(wf), "finalize")
               [] OTHER -> ExceptLarge(wf, "finalize")
  /\ UNCHANGED <<view, ct, disp, tn, md, sg, ch>>

\* `await self.message.delete()' with every exception printed
LargeDel ==
  /\ wf.pc = "large_del"
  /\ \E o \in {"ok", "forbidden", "error"} :
       wf' = Finally([wf EXCEPT !.srcDeleted = @ \/ o = "ok",
                                !.delForbidden = @ \/ o = "forbidden",
                                !.fault = @ \/ o # "ok",
                                !.outcome = "Done"])
  /\ UNCHANGED <<view, ct, disp, tn, md, sg, ch>>

\* ---- process_youtube -----------------------------------------------------

\* `temp_msg = await self.message.channel.send("Creating video thread...")'
YtAnchor ==
  /\ wf.pc = "yt_anchor"
  /\ \E ok \in BOOLEAN :
       wf' = IF ok
             THEN [wf EXCEPT !.sent = Append(@, Msg("channel", "anchor", 0)),
                             !.pc = "yt_thread"]
             ELSE ExceptGeneric(wf, "thread")
  /\ UNCHANGED <<view, ct, disp, tn, md, sg, ch>>

\* `target = await temp_msg.create_thread(name=thread_name)': one call, no
\* retry; an exception reaches `except Exception' of process_youtube
YtThread ==
  /\ wf.pc = "yt_thread"
  /\ ct' = [ct EXCEPT !.creates = @ + 1]
  /\ \E ok \in BOOLEAN :
       wf' = IF ok
             THEN [wf EXCEPT !.threadExists = TRUE, !.target = "thread",
                             !.pc = "yt_anchor_del"]
             ELSE ExceptGeneric(wf, "thread_creation")
  /\ UNCHANGED <<view, disp, tn, md, sg, ch>>

\* `await temp_msg.delete()' and `final_message = ...{target.mention}'
YtAnchorDel ==
  /\ wf.pc = "yt_anchor_del"
  /\ \E ok \in BOOLEAN :
       wf' = IF ok
             THEN [wf EXCEPT !.final_message = "mention", !.pc = "yt_url"]
             ELSE ExceptGeneric(wf, "thread")
  /\ UNCHANGED <<view, ct, disp, tn, md, sg, ch>>

\* the send of the video URL, then of the description embed
YtSend ==
  /\ wf.pc \in {"yt_url", "yt_embed"}
  /\ \E ok \in BOOLEAN :
       wf' = IF ok
             THEN [wf EXCEPT !.sent = Append(@, Msg(wf.target,
                                  IF wf.pc = "yt_url" THEN "url" ELSE "embed", 0)),
                             !.pc = IF wf.pc = "yt_url" THEN "yt_embed" ELSE "yt_status"]
             ELSE ExceptGeneric(wf, "delivery")
  /\ UNCHANGED <<view, ct, disp, tn, md, sg, ch>>

\* `if use_thread: edit(final_message) else: delete()'
YtStatus ==
  /\ wf.pc = "yt_status"
  /\ \E o \in EditOutcomes :
       LET eo == EditOutcome(wf, o) IN
       wf' = CASE eo = "ok" ->
                    IF view.use_thread
                    THEN [wf EXCEPT !.status = "mention", !.pc = "yt_del"]
                    ELSE [wf EXCEPT !.statusExists = FALSE, !.pc = "yt_del"]
               [] eo = "notfound" -> ExceptGeneric(Gone(wf), "finalize")
               [] OTHER -> ExceptGeneric(wf, "finalize")
  /\ UNCHANGED <<view, ct, disp, tn, md, sg, ch>>

\* `await self.message.delete()': only discord.Forbidden is caught here, any
\* other exception reaches `except Exception' of process_youtube
YtDel ==
  /\ wf.pc = "yt_del"
  /\ \E o \in {"ok", "forbidden", "http"} :
       LET w == [wf EXCEPT !.delForbidden = (o = "forbidden")] IN
       wf' = CASE o = "ok" -> Finally([w EXCEPT !.srcDeleted = TRUE, !.outcome = "Done"])
               [] ForbiddenCaught(o) -> Finally([w EXCEPT !.fault = TRUE, !.outcome = "Done"])
               [] OTHER -> ExceptGeneric(w, "finalize")
  /\ UNCHANGED <<view, ct, disp, tn, md, sg, ch>>

\* ---- thread names ----------------------------------------------------------

\* Strings are sequences of one-character strings.
Dots == <<".", ".", ".">>
Alphabet == <<"a", "b", ".">>
Patterns == {1, 2, 3}
DigitChar == <<"0", "1", "2", "3", "4", "5", "6", "7", "8", "9">>

\* a file name or title of length n
RawName(n, p) == [i \in 1..n |-> Alphabet[((i * p) % 3) + 1]]

\* index of the last "." of s, 0 if there is none
LastDot(s) ==
  LET D == {i \in 1..Len(s) : s[i] = "."}
  IN  IF D = {} THEN 0 ELSE CHOOSE i \in D : \A j \in D : j <= i

\* (variant: the name is cut at the limit without the marker)
Truncate_NoMarker(s) == IF Len(s) > 100 THEN SubSeq(s, 1, 100) ELSE s

\* `if len(thread_name) > 100: thread_name = thread_name[:97] + "..."'
Truncate(s) == IF Len(s) > 100 THEN SubSeq(s, 1, 97) \o Dots ELSE s

\* pdf, docx: `thread_name = self.attachment.filename'
FileThreadName(filename) == filename

\* image batch: `base_name = re.sub(r'\.[^.]+$', '', first_image_name)' and
\* f"{base_name} and {len(self.attachments)-1} more" for more than one image
ImageThreadName(first_image_name, count) ==
  LET j == LastDot(first_image_name)
      base_name == IF j > 0 /\ j < Len(first_image_name)
                   THEN SubSeq(first_image_name, 1, j - 1)
                   ELSE first_image_name
  IN  IF count > 1
      THEN base_name \o <<" ", "a", "n", "d", " ", DigitChar[count]>>
                     \o <<" ", "m", "o", "r", "e">>
      ELSE base_name

\* video: `file_name = filename.rsplit('.', 1)[0] + '.mp4' if '.' in filename
\* else filename + '.mp4''
VideoThreadName(filename) ==
  LET j == LastDot(filename)
  IN  (IF j > 0 THEN SubSeq(filename, 1, j - 1) ELSE filename)
        \o <<".", "m", "p", "4">>

\* youtube: f"Watch: {self.video_details['title'][:50]}"
YouTubeThreadName(title) ==
  <<"W", "a", "t", "c", "h", ":", " ">>
    \o SubSeq(title, 1, IF Len(title) < 50 THEN Len(title) ELSE 50)

\* the name a handler builds before it truncates it
FullName(handler, raw, count) ==
  CASE handler \in {"pdf", "docx"} -> FileThreadName(raw)
    [] handler = "image" -> ImageThreadName(raw, count)
    [] handler = "video" -> VideoThreadName(raw)
    [] handler = "youtube" -> YouTubeThreadName(raw)

TnIdle == [handler |-> "pdf", raw |-> <<>>, count |-> 1, full |-> <<>>,
           name |-> <<>>, phase |-> "off"]

TnInit ==
  \E h \in Kinds, n \in 0..MaxNameLen, p \in Patterns, c \in 1..MaxPages :
    /\ (h # "image" => c = 1)
    /\ tn = [handler |-> h, raw |-> RawName(n, p), count |-> c, full |-> <<>>,
             name |-> <<>>, phase |-> "input"]

\* the statements of process_* that build thread_name
NameThread ==
  /\ tn.phase = "input"
  /\ LET full == FullName(tn.handler, tn.raw, tn.count) IN
     tn' = [tn EXCEPT !.full = full, !.name = Truncate(full), !.phase = "named"]
  /\ UNCHANGED <<view, ct, wf, disp, md, sg, ch>>

\* ---- get_website_metadata and create_referral_embed --------------------------

\* What a fetch strategy yields for the URL:
\*   "fail"      the fetch returned None
\*   "unparsed"  html was fetched, extract_metadata_from_html returned None
\*   "bare"      a page with neither <title> nor description
\*   "notitle"   a page with a description and no <title>
\*   "title"     a page with a <title> and no description
\*   "full"      a page with both
FetchOutcomes == {"fail", "unparsed", "bare", "notitle", "title", "full"}
Strategies == <<"standard", "mobile", "selenium">>

\* the netloc of a URL that matched URL_REGEX (never empty: the regex demands
\* at least one host character after the scheme)
Domains == {"www.blofin.com", "example.com"}

\* `'blofin.com' in domain'
IsBlofin(domain) == domain = "www.blofin.com"

\* None, and the dictionary extract_metadata_from_html builds; "" stands for
\* a field that is None, error = "" for a dictionary without the key 'error'
NoMetadata ==
  [some |-> FALSE, title |-> "", description |-> "", domain |-> "", error |-> ""]

\* extract_metadata_from_html(html, url) for the page strategy `who' fetched
Extracted(o, who, domain) ==
  IF o \in {"fail", "unparsed"} THEN NoMetadata
  ELSE [some |-> TRUE,
        title |-> IF o \in {"title", "full"} THEN who ELSE "",
        description |-> IF o \in {"notitle", "full"} THEN who ELSE "",
        domain |-> domain, error |-> ""]

\* (variant: the next strategy is tried whatever the one before yielded)
Incomplete_Always(html, metadata) == TRUE

\* `not html or not metadata or not metadata.get('title')'
Incomplete(html, metadata) == ~html \/ ~metadata.some \/ metadata.title = ""

\* the merge of the mobile metadata into the standard one
MergeMobile(metadata, mobile) ==
  IF ~mobile.some THEN metadata
  ELSE IF ~metadata.some THEN mobile
  ELSE [metadata EXCEPT
          !.title = IF @ = "" THEN mobile.title ELSE @,
          !.description = IF @ = "" THEN mobile.description ELSE @]

\* (variant: the fallback is used only when there is no metadata at all)
NeedsFallback_NoMetadataOnly(metadata) == ~metadata.some

\* `if not metadata or not metadata.get('title')'
NeedsFallback(metadata) == ~metadata.some \/ metadata.title = ""

\* the basic metadata built when every method failed
FallbackMetadata(domain) ==
  [some |-> TRUE,
   title |-> IF IsBlofin(domain) THEN "Blofin - Crypto Exchange Platform"
             ELSE "Visit domain",
   description |-> IF IsBlofin(domain) THEN "Blofin is a cryptocurrency exchange"
                   ELSE "This website restricts automated access",
   domain |-> domain, error |-> "403 Forbidden"]

\* create_referral_embed
EmbedOf(metadata) ==
  [built |-> TRUE,
   title |-> IF metadata.title # "" THEN metadata.title ELSE "Visit Website",
   description |-> IF metadata.description # "" THEN metadata.description
                   ELSE "No description available",
   red |-> metadata.error # "",
   footer |-> IF metadata.error # "" THEN <<metadata.domain, metadata.error>>
              ELSE <<metadata.domain>>]

NoEmbed ==
  [built |-> FALSE, title |-> "", description |-> "", red |-> FALSE,
   footer |-> <<>>]

MdIdle ==
  [domain |-> "", selenium |-> FALSE,
   out |-> [i \in 1..3 |-> "fail"], html |-> FALSE, metadata |-> NoMetadata,
   tried |-> {}, embed |-> NoEmbed, phase |-> "off"]

MdInit ==
  \E d \in Domains, sel \in BOOLEAN, out \in [1..3 -> FetchOutcomes] :
    md = [MdIdle EXCEPT !.domain = d, !.selenium = sel, !.out = out,
                        !.phase = "standard"]

\* `html = await fetch_with_standard_request(url)' and the extraction
FetchStandard ==
  /\ md.phase = "standard"
  /\ LET html == md.out[1] # "fail"
         metadata == Extracted(md.out[1], Strategies[1], md.domain)
     IN  md' = [md EXCEPT !.html = html, !.metadata = metadata,
                          !.tried = @ \cup {1},
                          !.phase = IF Incomplete(html, metadata)
                                    THEN "mobile" ELSE "selenium"]
  /\ UNCHANGED <<view, ct, wf, disp, tn, sg, ch>>

\* `html = await fetch_with_mobile_emulation(url)' and the merge
FetchMobile ==
  /\ md.phase = "mobile"
  /\ LET mobile == Extracted(md.out[2], Strategies[2], md.domain)
     IN  md' = [md EXCEPT !.html = md.out[2] # "fail",
                          !.metadata = MergeMobile(@, mobile),
                          !.tried = @ \cup {2},
                          !.phase = "selenium"]
  /\ UNCHANGED <<view, ct, wf, disp, tn, sg, ch>>

\* `if (not html or ...) and SELENIUM_AVAILABLE: html = await
\* fetch_with_selenium(url)'; its metadata replaces what was there
FetchSelenium ==
  /\ md.phase = "selenium"
  /\ IF Incomplete(md.html, md.metadata) /\ md.selenium
     THEN LET sm == Extracted(md.out[3], Strategies[3], md.domain)
          IN  md' = [md EXCEPT !.html = md.out[3] # "fail",
                               !.metadata = IF sm.some THEN sm ELSE @,
                               !.tried = @ \cup {3},
                               !.phase = "fallback"]
     ELSE md' = [md EXCEPT !.phase = "fallback"]
  /\ UNCHANGED <<view, ct, wf, disp, tn, sg, ch>>

\* the fallback metadata and `return metadata'
ReturnMetadata ==
  /\ md.phase = "fallback"
  /\ md' = [md EXCEPT
              !.metadata = IF NeedsFallback(@) THEN FallbackMetadata(md.domain)
                           ELSE @,
              !.phase = "returned"]
  /\ UNCHANGED <<view, ct, wf, disp, tn, sg, ch>>

\* `embed = await create_referral_embed(url, metadata)'
CreateEmbed ==
  /\ md.phase = "returned"
  /\ md' = [md EXCEPT !.embed = EmbedOf(md.metadata), !.phase = "embedded"]
  /\ UNCHANGED <<view, ct, wf, disp, tn, sg, ch>>

\* ---- handle_large_video: the number of segments and their compression ------

Min(a, b) == IF a < b THEN a ELSE b
Max(a, b) == IF a > b THEN a ELSE b

\* File sizes (in half megabytes) and durations (in half seconds) on and
\* just below every multiple of MAX_SEGMENT_SIZE_MB and of 180 seconds
SizeValues ==
  {2 * MAX_SEGMENT_SIZE_MB * k + d : k \in 0..MaxSizeSteps,
                                     d \in {0, 2 * MAX_SEGMENT_SIZE_MB - 1}}
DurValues == {360 * k + d : k \in 0..MaxDurSteps, d \in {0, 359}}

\* `int(file_size_mb / MAX_SEGMENT_SIZE_MB)'
SizeRatio(size2) == size2 \div (2 * MAX_SEGMENT_SIZE_MB)

\* `duration_based_segments = int(total_seconds / 180)'
DurationSegments(dur2) == dur2 \div 360

\* (variant: without the final cap)
Capped_Not(n) == n

\* `segments = min(segments, 20)'
Capped(n) == Min(n, 20)

\* the three assignments to `segments'
SegmentCount(size2, dur2) ==
  LET bySize == Max(6, Min(SizeRatio(size2), 15))
      byBoth == Max(bySize, DurationSegments(dur2))
  IN  Capped(byBoth)

SgIdle ==
  [size2 |-> 0, dur2 |-> 0, segments |-> 0, i |-> 0, passes |-> 0,
   maxPasses |-> 0, nfiles |-> 0, over |-> FALSE, phase |-> "off"]

SgInit ==
  \E s \in SizeValues, d \in DurValues :
    sg = [SgIdle EXCEPT !.size2 = s, !.dur2 = d, !.phase = "probe"]

\* the probe of the duration (`raise ValueError' when ffmpeg printed none)
\* and the computation of `segments'
Probe ==
  /\ sg.phase = "probe"
  /\ \E found \in BOOLEAN :
       sg' = IF found
             THEN [sg EXCEPT !.segments = SegmentCount(sg.size2, sg.dur2),
                             !.phase = "segment"]
             ELSE [sg EXCEPT !.phase = "failed"]
  /\ UNCHANGED <<view, ct, wf, disp, tn, md, ch>>

\* segment_files.append(...) and the next iteration of `for i in
\* range(segments)'
Appended(s, over) ==
  [s EXCEPT !.nfiles = @ + 1,
            !.over = @ \/ over,
            !.maxPasses = Max(@, s.passes),
            !.passes = 0,
            !.i = @ + 1,
            !.phase = "segment"]

\* one segment is cut; `if segment_size > MAX_SEGMENT_SIZE_MB'
CutSegment ==
  /\ sg.phase = "segment"
  /\ sg.i < sg.segments
  /\ \E over \in BOOLEAN :
       sg' = IF over THEN [sg EXCEPT !.phase = "compress"]
             ELSE Appended(sg, FALSE)
  /\ UNCHANGED <<view, ct, wf, disp, tn, md, ch>>

\* the compression with crf 38; `if os.path.getsize(compressed_file) >
\* MAX_SEGMENT_SIZE_MB * 1024 * 1024'
Compress ==
  /\ sg.phase = "compress"
  /\ \E over \in BOOLEAN :
       sg' = IF over THEN [sg EXCEPT !.passes = 1, !.phase = "final"]
             ELSE Appended([sg EXCEPT !.passes = 1], FALSE)
  /\ UNCHANGED <<view, ct, wf, disp, tn, md, ch>>

\* the compression with crf 42; final_file is appended whatever its size
FinalCompress ==
  /\ sg.phase = "final"
  /\ \E over \in BOOLEAN :
       sg' = Appended([sg EXCEPT !.passes = 2], over)
  /\ UNCHANGED <<view, ct, wf, disp, tn, md, ch>>

\* the end of the loop: every entry of segment_files is uploaded next
UploadSegments ==
  /\ sg.phase = "segment"
  /\ sg.i = sg.segments
  /\ sg' = [sg EXCEPT !.phase = "upload"]
  /\ UNCHANGED <<view, ct, wf, disp, tn, md, ch>>

\* ---- two workflows in one channel ------------------------------------------

Wfs == {1, 2}

\* A message of the channel: the workflow it belongs to and what it is:
\*   "source"        the user's message that holds the content item
\*   "status"        processing_msg
\*   "anchor"        temp_msg of process_youtube
\*   "notification"  the system message of channel.create_thread
\*   "resent"        final_message, sent by process_pdf when processing_msg
\*                   was gone
\*   "error_text"    the error text, sent by safe_edit_processing_msg when
\*                   processing_msg was gone
ChMsg(owner, role) == [owner |-> owner, role |-> role]

ChWfIdle ==
  [kind |-> "pdf", nameHasThread |-> FALSE, use_thread |-> FALSE,
   pc |-> "absent", status |-> "none", statusExists |-> FALSE,
   thread |-> "none", final |-> "unset", delivered |-> 0, outcome |-> "none"]

ChIdle ==
  [w |-> [i \in Wfs |-> ChWfIdle], hist |-> <<>>, pdfSet |-> {},
   fileSet |-> {}, lost |-> {}]

\* `"thread" in msg.content.lower()' for a message of the channel.  The texts
\* the handlers write to a status message that hold the word: the fallback
\* warnings ("Could not create thread. ..."), "Created thread. Preparing
\* video...", and "Video posted in thread: ..." of process_youtube (the other
\* handlers' final text is the bare mention).  The content of a
\* thread_created system message is the name of the thread.
ContentHasThread(c, m) ==
  CASE m.role = "status" ->
         \/ c.w[m.owner].status \in {"warning", "created_thread"}
         \/ c.w[m.owner].kind = "youtube" /\ c.w[m.owner].status = "mention"
    [] m.role = "anchor" -> TRUE
    [] m.role = "notification" -> c.w[m.owner].nameHasThread
    [] m.role = "resent" -> c.w[m.owner].final = "warning"
    [] OTHER -> FALSE

\* `limit=10' of channel.history
HistoryLimit == 10

\* process_pdf: `history(limit=10, after=self.message.created_at)' yields the
\* messages after the source message, oldest first; the first one of a bot
\* (`msg.author.bot': every message but a source message) with "thread" in
\* its text is deleted (0: none)
PdfScanMatch(c, i) ==
  LET h == c.hist
      src == CHOOSE p \in 1..Len(h) : h[p] = ChMsg(i, "source")
      hits == {p \in (src + 1)..Len(h) :
                 /\ p <= src + HistoryLimit
                 /\ h[p].role # "source"
                 /\ ContentHasThread(c, h[p])}
  IN  IF hits = {} THEN 0 ELSE CHOOSE p \in hits : \A q \in hits : p <= q

\* docx, image batch, video: `history(limit=10)' yields the newest messages
\* first; the first one of type thread_created (the system message of
\* create_thread) is deleted (0: none).  No text
\* the handlers write holds "started a thread", the second test of the loop.
TypeScanMatch(c) ==
  LET h == c.hist
      hits == {p \in 1..Len(h) :
                 p > Len(h) - HistoryLimit /\ h[p].role = "notification"}
  IN  IF hits = {} THEN 0 ELSE CHOOSE p \in hits : \A q \in hits : p >= q

\* `await msg.delete()' of the scan of workflow `by' for the message at p
ScanDeleted(c, by, p) ==
  LET m == c.hist[p] IN
  [c EXCEPT !.hist = SubSeq(@, 1, p - 1) \o SubSeq(@, p + 1, Len(@)),
            !.w[m.owner].statusExists = IF m.role = "status" THEN FALSE ELSE @,
            !.lost = @ \cup {[by |-> by, owner |-> m.owner, role |-> m.role]}]

\* (variant: the finally clause empties the set)
Released_All(set, i) == {}

\* `_processed_pdf_messages.remove(self.message.id)'
Released(set, i) == set \ {i}

\* the end of process_*: `finally' of process_pdf; the other handlers have
\* none
ChEnd(c, i, outcome) ==
  [c EXCEPT !.w[i].pc = "done", !.w[i].outcome = outcome,
            !.pdfSet = IF c.w[i].kind = "pdf" THEN Released(@, i) ELSE @]

\* handle_*: the options view is presented for a new message
ChArrive(i) ==
  /\ ch.w[i].pc = "absent"
  /\ \E k \in Kinds, nm \in BOOLEAN :
       ch' = [ch EXCEPT
                !.w[i] = [ChWfIdle EXCEPT !.kind = k, !.nameHasThread = nm,
                                          !.pc = "prompt", !.status = "prompt",
                                          !.statusExists = TRUE],
                !.hist = @ \o <<ChMsg(i, "source"), ChMsg(i, "status")>>,
                !.pdfSet = IF k = "pdf" THEN @ \cup {i} ELSE @,
                !.fileSet = IF k = "video" THEN @ \cup {i} ELSE @]
  /\ UNCHANGED <<view, ct, wf, disp, tn, md, sg>>

\* a button of the options view is pressed and process_* makes its first
\* edit of processing_msg
ChPress(i, choice) ==
  /\ ch.w[i].pc = "prompt"
  /\ ch.w[i].statusExists
  /\ ch' = [ch EXCEPT
              !.w[i].use_thread = choice,
              !.w[i].status = "working",
              !.w[i].final = IF choice THEN "unset" ELSE "none",
              !.w[i].pc = IF ~choice THEN "deliver"
                          ELSE IF ch.w[i].kind = "youtube" THEN "yt_anchor"
                          ELSE "create"]
  /\ UNCHANGED <<view, ct, wf, disp, tn, md, sg>>

\* create_thread_with_retry up to the scan: the thread and its system
\* message, or None and the fallback (process_video edits processing_msg to
\* the warning at once)
ChCreate(i) ==
  /\ ch.w[i].pc = "create"
  /\ \E ok \in BOOLEAN :
       IF ok
       THEN ch' = [ch EXCEPT !.w[i].thread = "open",
                             !.hist = Append(@, ChMsg(i, "notification")),
                             !.w[i].pc = "scan"]
       ELSE /\ ch.w[i].kind = "video" => ch.w[i].statusExists
            /\ ch' = [ch EXCEPT
                        !.w[i].final = "warning",
                        !.w[i].status = IF ch.w[i].kind = "video"
                                        THEN "warning" ELSE @,
                        !.w[i].pc = "deliver"]
  /\ UNCHANGED <<view, ct, wf, disp, tn, md, sg>>

\* the scan for the thread notification and `return thread'; an exception of
\* `msg.delete()' is caught
ChScan(i) ==
  /\ ch.w[i].pc = "scan"
  /\ ch.w[i].kind = "video" => ch.w[i].statusExists
  /\ \E delOK \in BOOLEAN :
       LET p == IF ch.w[i].kind = "pdf" THEN PdfScanMatch(ch, i)
                ELSE TypeScanMatch(ch)
           c1 == IF p # 0 /\ delOK THEN ScanDeleted(ch, i, p) ELSE ch
       IN  ch' = [c1 EXCEPT
                    !.w[i].final = "mention",
                    !.w[i].status = IF ch.w[i].kind = "video"
                                    THEN "created_thread" ELSE @,
                    !.w[i].pc = "deliver"]
  /\ UNCHANGED <<view, ct, wf, disp, tn, md, sg>>

\* `temp_msg = await self.message.channel.send("Creating video thread...")'
ChYtAnchor(i) ==
  /\ ch.w[i].pc = "yt_anchor"
  /\ ch' = [ch EXCEPT !.hist = Append(@, ChMsg(i, "anchor")),
                      !.w[i].pc = "yt_thread"]
  /\ UNCHANGED <<view, ct, wf, disp, tn, md, sg>>

\* `target = await temp_msg.create_thread(name=thread_name)'
ChYtThread(i) ==
  /\ ch.w[i].pc = "yt_thread"
  /\ \E p \in 1..Len(ch.hist) : ch.hist[p] = ChMsg(i, "anchor")
  /\ ch' = [ch EXCEPT !.w[i].thread = "open", !.w[i].pc = "yt_anchor_del"]
  /\ UNCHANGED <<view, ct, wf, disp, tn, md, sg>>

\* `await temp_msg.delete()'
ChYtAnchorDel(i) ==
  /\ ch.w[i].pc = "yt_anchor_del"
  /\ \E p \in 1..Len(ch.hist) :
       /\ ch.hist[p] = ChMsg(i, "anchor")
       /\ ch' = [ch EXCEPT !.hist = SubSeq(@, 1, p - 1)
                                       \o SubSeq(@, p + 1, Len(@)),
                           !.w[i].final = "mention",
                           !.w[i].pc = "deliver"]
  /\ UNCHANGED <<view, ct, wf, disp, tn, md, sg>>

\* the artifacts are sent to the target
ChDeliver(i) ==
  /\ ch.w[i].pc = "deliver"
  /\ ch' = [ch EXCEPT !.w[i].delivered = @ + 1, !.w[i].pc = "final"]
  /\ UNCHANGED <<view, ct, wf, disp, tn, md, sg>>

\* the final edit or deletion of processing_msg; process_pdf catches NotFound
\* and sends final_message to the channel
ChFinal(i) ==
  /\ ch.w[i].pc = "final"
  /\ ch.w[i].statusExists \/ ch.w[i].kind = "pdf"
  /\ LET me == ch.w[i]
         c1 == IF ~me.statusExists
               THEN [ch EXCEPT !.hist = IF me.final = "none" THEN @
                                        ELSE Append(@, ChMsg(i, "resent"))]
               ELSE IF me.final = "none"
               THEN [ch EXCEPT
                       !.hist = SelectSeq(@, LAMBDA m : m # ChMsg(i, "status")),
                       !.w[i].statusExists = FALSE]
               ELSE [ch EXCEPT !.w[i].status = me.final]
     IN  ch' = ChEnd(c1, i, "Done")
  /\ UNCHANGED <<view, ct, wf, disp, tn, md, sg>>

\* an exception in process_*: the except clause edits processing_msg to the
\* error text (process_pdf sends the text when the edit raises; elsewhere an
\* edit that raises leaves the clause), then deletes the thread it created
ChFail(i) ==
  /\ ch.w[i].pc \in {"create", "scan", "yt_anchor", "yt_thread",
                      "yt_anchor_del", "deliver", "final"}
  /\ \E exc \in {"forbidden", "generic"} :
       LET me == ch.w[i]
           edited == me.statusExists
           escapes == ~edited /\ me.kind # "pdf"
           c1 == [ch EXCEPT
                    !.w[i].status = IF edited THEN ErrorText(exc) ELSE @,
                    !.hist = IF ~edited /\ me.kind = "pdf"
                             THEN Append(@, ChMsg(i, "error_text")) ELSE @,
                    !.w[i].thread = IF me.thread = "open" /\ ~escapes
                                       /\ RollsBack(exc)
                                    THEN "deleted" ELSE @]
       IN  ch' = ChEnd(c1, i, "Failed")
  /\ UNCHANGED <<view, ct, wf, disp, tn, md, sg>>

\* ---- on_message and the handlers' entry functions -------------------------

AllKinds == Kinds \cup {"referral"}
Runs == 1..MaxDispatch

\* What one call of a handler's entry function did: its return value, whether
\* an exception left it, whether it presented an options view (or, for
\* referral links, a status message), how many other messages it sent, and
\* whether the item's id is in the handler's processed set afterwards.
Result(ret, raised, prompt, notice, inSet) ==
  [ret |-> ret, raised |-> raised, prompt |-> prompt, notice |-> notice,
   inSet |-> inSet]

\* (variant: the check of the processed set is missing)
PdfInFlight_Never(inSet) == FALSE

\* `if message.id in _processed_pdf_messages: return True'
PdfInFlight(inSet) == inSet

\* handle_pdf
HandlePdf(inSet, hasPdf, big, permsOK, sendOK) ==
  IF PdfInFlight(inSet) THEN Result(TRUE, FALSE, FALSE, 0, inSet)
  ELSE IF ~hasPdf THEN Result(FALSE, FALSE, FALSE, 0, inSet)
  ELSE IF big \/ ~permsOK
  THEN IF sendOK THEN Result(TRUE, FALSE, FALSE, 1, FALSE)
       ELSE Result(FALSE, TRUE, FALSE, 0, TRUE)
  ELSE IF sendOK THEN Result(TRUE, FALSE, TRUE, 0, TRUE)
  ELSE Result(FALSE, FALSE, FALSE, 0, FALSE)

\* `if attachment.id in processed_files'
FileProcessed(inSet) == inSet

\* handle_mp4 (the first attachment that matches VIDEO_REGEX)
HandleMp4(inSet, hasVideo, big, sendOK) ==
  IF ~hasVideo THEN Result(FALSE, FALSE, FALSE, 0, inSet)
  ELSE IF FileProcessed(inSet) \/ big
  THEN IF sendOK THEN Result(TRUE, FALSE, FALSE, 1, inSet)
       ELSE Result(FALSE, TRUE, FALSE, 0, inSet)
  ELSE IF sendOK THEN Result(TRUE, FALSE, TRUE, 0, TRUE)
  ELSE Result(FALSE, TRUE, FALSE, 0, TRUE)

\* handle_image_batch: fewer than 2 images, the permission check (which
\* returns False after its warning), the options view
HandleImageBatch(nImages, permsOK, sendOK) ==
  IF nImages < 2 THEN Result(FALSE, FALSE, FALSE, 0, FALSE)
  ELSE IF ~permsOK
  THEN IF sendOK THEN Result(FALSE, FALSE, FALSE, 1, FALSE)
       ELSE Result(FALSE, TRUE, FALSE, 0, FALSE)
  ELSE IF sendOK THEN Result(TRUE, FALSE, TRUE, 0, FALSE)
  ELSE Result(FALSE, FALSE, FALSE, 0, FALSE)

\* handle_docx
HandleDocx(hasDocx, big, permsOK, sendOK) ==
  IF ~hasDocx THEN Result(FALSE, FALSE, FALSE, 0, FALSE)
  ELSE IF big \/ ~permsOK
  THEN IF sendOK THEN Result(TRUE, FALSE, FALSE, 1, FALSE)
       ELSE Result(FALSE, TRUE, FALSE, 0, FALSE)
  ELSE IF sendOK THEN Result(TRUE, FALSE, TRUE, 0, FALSE)
  ELSE Result(FALSE, FALSE, FALSE, 0, FALSE)

\* handle_youtube: the "Getting video information..." message, then either
\* "Couldn't get information" (return False) or the options view
HandleYoutube(hasLink, detailsOK, sendOK) ==
  IF ~hasLink THEN Result(FALSE, FALSE, FALSE, 0, FALSE)
  ELSE IF ~sendOK THEN Result(FALSE, TRUE, FALSE, 0, FALSE)
  ELSE IF ~detailsOK THEN Result(FALSE, FALSE, FALSE, 1, FALSE)
  ELSE Result(TRUE, FALSE, TRUE, 0, FALSE)

\* handle_referral: a URL in the referral channel gets a status message and
\* an embed without an options view
HandleReferral(hasUrl, embedOK, sendOK) ==
  IF ~hasUrl THEN Result(FALSE, FALSE, FALSE, 0, FALSE)
  ELSE IF ~sendOK THEN Result(FALSE, TRUE, FALSE, 0, FALSE)
  ELSE Result(embedOK, FALSE, TRUE, 0, FALSE)

\* (variant: every handler is tried in turn, whatever the one before returned)
NextHandler_Always(h, ret) ==
  CASE h = "image" -> "pdf"
    [] h = "pdf" -> "docx"
    [] h = "docx" -> "mp4"
    [] h = "mp4" -> "youtube"
    [] h = "youtube" -> "referral"
    [] h = "referral" -> "end"

\* on_message: where control goes after a handler returned
NextHandler(h, ret) ==
  CASE h = "image" -> IF ret THEN "mp4" ELSE "pdf"
    [] h = "pdf" -> IF ret THEN "mp4" ELSE "docx"
    [] h = "docx" -> "mp4"
    [] h = "mp4" -> IF ret THEN "end" ELSE "youtube"
    [] h = "youtube" -> IF ret THEN "end" ELSE "referral"
    [] h = "referral" -> "end"

DispIdle ==
  [msg |-> [fromBot |-> FALSE, nImages |-> 0, pdf |-> FALSE, docx |-> FALSE,
            video |-> FALSE, youtube |-> FALSE, referral |-> FALSE,
            pdfBig |-> FALSE, docxBig |-> FALSE, videoBig |-> FALSE],
   dpc |-> [t \in Runs |-> "off"],
   pdfSet |-> FALSE, fileSet |-> FALSE,
   prompts |-> [k \in AllKinds |-> 0],
   began |-> [t \in Runs |-> 0],
   last |-> [handler |-> "none", inflight |-> FALSE,
             prompt |-> FALSE, notice |-> 0, ret |-> FALSE, raised |-> FALSE]]

Messages ==
  {m \in [fromBot : BOOLEAN, nImages : 0..2, pdf : BOOLEAN, docx : BOOLEAN,
          video : BOOLEAN, youtube : BOOLEAN, referral : BOOLEAN,
          pdfBig : BOOLEAN, docxBig : BOOLEAN, videoBig : BOOLEAN] :
     /\ (m.fromBot => m.nImages <= 1 /\ ~m.pdf /\ ~m.docx /\ ~m.referral)
     /\ (m.fromBot => ~m.pdfBig /\ ~m.docxBig /\ ~m.videoBig)
     /\ (m.pdfBig => m.pdf)
     /\ (m.docxBig => m.docx)
     /\ (m.videoBig => m.video)}

DispInit ==
  \E m \in Messages :
    disp = [DispIdle EXCEPT !.msg = m, !.dpc = [t \in Runs |-> "idle"]]

HasAttachments(m) == m.nImages > 0 \/ m.pdf \/ m.docx \/ m.video

\* (variant: on_message does not look at the author)
OwnMessage_Never(m) == FALSE

\* `if message.author == bot.user: return'
OwnMessage(m) == m.fromBot

\* on_message up to the first handler: `if message.author == bot.user:
\* return', process_commands, `if message.attachments:'
Begin(t) ==
  /\ disp.dpc[t] = "idle"
  /\ t > 1 => disp.dpc[t - 1] # "idle"
  /\ disp' = [disp EXCEPT !.dpc[t] =
                IF OwnMessage(disp.msg) THEN "end"
                ELSE IF HasAttachments(disp.msg) THEN "image" ELSE "mp4"]
  /\ UNCHANGED <<view, ct, wf, tn, md, sg, ch>>

\* the bookkeeping of one handler call of run t
Called(t, h, inflight, r) ==
  disp' = [disp EXCEPT
     !.dpc[t] = IF r.raised THEN "end" ELSE NextHandler(h, r.ret),
     !.pdfSet = IF h = "pdf" THEN r.inSet ELSE @,
     !.fileSet = IF h = "mp4" THEN r.inSet ELSE @,
     !.prompts[IF h = "mp4" THEN "video" ELSE h] = IF r.prompt THEN @ + 1 ELSE @,
     !.began[t] = IF r.prompt THEN @ + 1 ELSE @,
     !.last = [handler |-> h, inflight |-> inflight,
               prompt |-> r.prompt, notice |-> r.notice, ret |-> r.ret,
               raised |-> r.raised]]

CallImageBatch(t) ==
  /\ disp.dpc[t] = "image"
  /\ \E permsOK \in BOOLEAN, sendOK \in BOOLEAN :
       Called(t, "image", FALSE, HandleImageBatch(disp.msg.nImages, permsOK, sendOK))
  /\ UNCHANGED <<view, ct, wf, tn, md, sg, ch>>

CallPdf(t) ==
  /\ disp.dpc[t] = "pdf"
  /\ \E permsOK \in BOOLEAN, sendOK \in BOOLEAN :
       Called(t, "pdf", disp.pdfSet,
              HandlePdf(disp.pdfSet, disp.msg.pdf, disp.msg.pdfBig, permsOK, sendOK))
  /\ UNCHANGED <<view, ct, wf, tn, md, sg, ch>>

CallDocx(t) ==
  /\ disp.dpc[t] = "docx"
  /\ \E permsOK \in BOOLEAN, sendOK \in BOOLEAN :
       Called(t, "docx", FALSE,
              HandleDocx(disp.msg.docx, disp.msg.docxBig, permsOK, sendOK))
  /\ UNCHANGED <<view, ct, wf, tn, md, sg, ch>>

CallMp4(t) ==
  /\ disp.dpc[t] = "mp4"
  /\ \E sendOK \in BOOLEAN :
       Called(t, "mp4", disp.msg.video /\ disp.fileSet,
              HandleMp4(disp.fileSet, disp.msg.video, disp.msg.videoBig, sendOK))
  /\ UNCHANGED <<view, ct, wf, tn, md, sg, ch>>

CallYoutube(t) ==
  /\ disp.dpc[t] = "youtube"
  /\ \E detailsOK \in BOOLEAN, sendOK \in BOOLEAN :
       Called(t, "youtube", FALSE, HandleYoutube(disp.msg.youtube, detailsOK, sendOK))
  /\ UNCHANGED <<view, ct, wf, tn, md, sg, ch>>

CallReferral(t) ==
  /\ disp.dpc[t] = "referral"
  /\ \E embedOK \in BOOLEAN, sendOK \in BOOLEAN :
       Called(t, "referral", FALSE, HandleReferral(disp.msg.referral, embedOK, sendOK))
  /\ UNCHANGED <<view, ct, wf, tn, md, sg, ch>>

\* `finally' of process_pdf: the message id leaves _processed_pdf_messages
\* when the workflow of a presented pdf options view ends
PdfWorkflowEnds ==
  /\ disp.pdfSet
  /\ disp.prompts["pdf"] > 0
  /\ disp' = [disp EXCEPT !.pdfSet = FALSE]
  /\ UNCHANGED <<view, ct, wf, tn, md, sg, ch>>

\* ---- the workflow of one content item ------------------------------------

ViewIdle == [kind |-> "pdf", npages |-> 1, button_clicked |-> FALSE,
             use_thread |-> FALSE, presses |-> MaxPresses, lateDefer |-> FALSE,
             started |-> 0, timedOut |-> FALSE]
WfIdle == [pc |-> "off", target |-> "unset", final_message |-> "unset",
           threadExists |-> FALSE, status |-> "prompt", statusExists |-> TRUE,
           statusGone |-> FALSE, escaped |-> FALSE, resendFailed |-> FALSE,
           exc |-> "none", rl |-> 0,
           retries |-> 0, failedAt |-> 0,
           sent |-> <<>>, idx |-> 0, succ |-> 0, small |-> TRUE,
           srcDeleted |-> FALSE, delForbidden |-> FALSE,
           inflight |-> FALSE, outcome |-> "none",
           cause |-> "none", fault |-> FALSE]

Init ==
  WfInit /\ disp = DispIdle /\ tn = TnIdle /\ md = MdIdle /\ sg = SgIdle
    /\ ch = ChIdle

Next ==
  \/ \E choice \in BOOLEAN : Press(choice)
  \/ Ack
  \/ Start
  \/ Convert
  \/ CtCall
  \/ CtSleep
  \/ CtNotify
  \/ CtRet
  \/ FirstPage
  \/ Open
  \/ Page
  \/ PageRetry
  \/ Timeout
  \/ PostFirst
  \/ Post
  \/ FinalStatus
  \/ FinalDel
  \/ Upload
  \/ UploadWarn
  \/ UploadDel
  \/ UploadStatus
  \/ Large
  \/ Seg
  \/ SegNote
  \/ LargeWarn
  \/ LargeStatus
  \/ LargeDel
  \/ YtAnchor
  \/ YtThread
  \/ YtAnchorDel
  \/ YtSend
  \/ YtStatus
  \/ YtDel
  \/ ErrorEdit
  \/ ViewTimeout
  \/ LateTimeout

Spec == Init /\ [][Next]_vars

\* the steps of a workflow that was started: each is the return (or the
\* exception) of an external call the coroutine awaits
Run ==
  \/ Ack \/ Start \/ Convert \/ CtCall \/ CtSleep \/ CtNotify \/ CtRet
  \/ FirstPage \/ Open \/ Page \/ PageRetry \/ Timeout \/ PostFirst \/ Post
  \/ FinalStatus \/ FinalDel \/ Upload \/ UploadWarn \/ UploadDel
  \/ UploadStatus \/ Large \/ Seg \/ SegNote \/ LargeWarn \/ LargeStatus
  \/ LargeDel \/ YtAnchor \/ YtThread \/ YtAnchorDel \/ YtSend \/ YtStatus
  \/ YtDel \/ ErrorEdit

\* every external call eventually returns or raises
SpecLive == Init /\ [][Next]_vars /\ WF_vars(Run)

\* ---- the dispatcher, for one message delivered up to MaxDispatch times ----

InitDispatch ==
  DispInit /\ view = ViewIdle /\ CtInit /\ wf = WfIdle /\ tn = TnIdle /\ md = MdIdle
    /\ sg = SgIdle /\ ch = ChIdle

NextDispatch ==
  \/ \E t \in Runs : Begin(t)
  \/ \E t \in Runs : CallImageBatch(t)
  \/ \E t \in Runs : CallPdf(t)
  \/ \E t \in Runs : CallDocx(t)
  \/ \E t \in Runs : CallMp4(t)
  \/ \E t \in Runs : CallYoutube(t)
  \/ \E t \in Runs : CallReferral(t)
  \/ PdfWorkflowEnds

SpecDispatch == InitDispatch /\ [][NextDispatch]_vars

\* ---- the naming of a thread, for every handler and name length ------------

InitName ==
  TnInit /\ view = ViewIdle /\ CtInit /\ wf = WfIdle /\ disp = DispIdle /\ md = MdIdle
    /\ sg = SgIdle /\ ch = ChIdle

NextName == NameThread

SpecName == InitName /\ [][NextName]_vars

\* ---- the metadata of one referral URL ----------------------------------------

InitMeta ==
  MdInit /\ view = ViewIdle /\ CtInit /\ wf = WfIdle /\ disp = DispIdle
    /\ tn = TnIdle /\ sg = SgIdle /\ ch = ChIdle

NextMeta ==
  \/ FetchStandard
  \/ FetchMobile
  \/ FetchSelenium
  \/ ReturnMetadata
  \/ CreateEmbed

SpecMeta == InitMeta /\ [][NextMeta]_vars

\* ---- the segments of one large video ----------------------------------------

InitSegments ==
  SgInit /\ view = ViewIdle /\ CtInit /\ wf = WfIdle /\ disp = DispIdle
    /\ tn = TnIdle /\ md = MdIdle /\ ch = ChIdle

NextSegments ==
  \/ Probe
  \/ CutSegment
  \/ Compress
  \/ FinalCompress
  \/ UploadSegments

SpecSegments == InitSegments /\ [][NextSegments]_vars

\* ---- two content items in one channel --------------------------------------

InitChannel ==
  ch = ChIdle /\ view = ViewIdle /\ CtInit /\ wf = WfIdle /\ disp = DispIdle
    /\ tn = TnIdle /\ md = MdIdle /\ sg = SgIdle

NextChannel ==
  \E i \in Wfs :
    \/ ChArrive(i)
    \/ \E choice \in BOOLEAN : ChPress(i, choice)
    \/ ChCreate(i)
    \/ ChScan(i)
    \/ ChYtAnchor(i)
    \/ ChYtThread(i)
    \/ ChYtAnchorDel(i)
    \/ ChDeliver(i)
    \/ ChFinal(i)
    \/ ChFail(i)

SpecChannel == InitChannel /\ [][NextChannel]_vars

\* ======================= properties: the workflow (Spec) ===================

IsArtifact(m) == m.item \in {"page", "segment", "file", "url", "embed"}
IsPage(m) == m.item = "page"

\* the pages delivered so far, in order
PagesSent == SelectSeq(wf.sent, IsPage)

C2_InOrderExactlyOnce ==
  (view.kind \in PageKinds /\ wf.outcome = "Done")
    => /\ Len(PagesSent) = view.npages
       /\ \A i \in 1..Len(PagesSent) :
            PagesSent[i].n = i /\ PagesSent[i].to = wf.target

\* C3: one invocation of create_thread_with_retry issues at most 3 creation
\* calls, no exception leaves it, and when every call failed the caller gets
\* None.
C3_RetryBounded ==
  view.kind \in RetryKinds
    => /\ ct.creates <= 3
       /\ ct.ret \in {"unset", "thread", "none"}
       /\ (wf.pc = "ct_ret" /\ ct.creates = ct.forbids + ct.others
             => ct.ret = "none")
       /\ (wf.pc = "ct_ret" => ct.ret # "unset")

\* three permission failures in a row: the caller gets None
C3_Witness ==
  /\ wf.pc = "ct_ret"
  /\ ct.creates = 3
  /\ ct.forbids = 3
  /\ ct.ret = "none"

\* C4 as stated: when every attempt fails with a permission error the delays
\* waited are 2, 4 and 8.
C4_Delays_2_4_8 ==
  (view.kind \in RetryKinds /\ wf.pc = "ct_ret" /\ ct.forbids = max_retries)
    => ct.slept = <<2, 4, 8>>

\* C4 amended: when every attempt fails with a permission error the delays
\* waited are 2 and 4, in that order (one between consecutive attempts, none
\* after the last); the first delay is 2 and each later one is double the
\* one before it.
C4_Delays_2_4 ==
  /\ (view.kind \in RetryKinds /\ wf.pc = "ct_ret" /\ ct.forbids = max_retries)
       => ct.slept = <<2, 4>>
  /\ \A i \in 1..Len(ct.slept) :
       ct.slept[i] = IF i = 1 THEN 2 ELSE 2 * ct.slept[i - 1]

\* create_thread_with_retry returned after three permission failures
C4_Witness ==
  /\ view.kind \in RetryKinds
  /\ wf.pc = "ct_ret"
  /\ ct.forbids = max_retries
  /\ Len(ct.slept) = 2

\* C5: "create thread" was chosen and create_thread_with_retry returned None:
\* when the workflow is Done (and nobody else deleted the status message)
\* every artifact went to the original channel and the status message exists
\* and shows the fallback warning.
C5_FallbackWarning ==
  (view.kind \in RetryKinds /\ view.use_thread /\ ct.ret = "none"
     /\ wf.outcome = "Done" /\ ~wf.statusGone)
    => /\ \A i \in 1..Len(wf.sent) : wf.sent[i].to = "channel"
       /\ wf.statusExists
       /\ wf.status = "warning"

\* C6: "create thread" was chosen and the workflow Failed with a conversion
\* failure or the conversion timeout (its except clause ran to its end): no
\* thread it created exists any more.
C6_ThreadRolledBack ==
  (view.use_thread /\ wf.outcome = "Failed" /\ ~wf.escaped
     /\ wf.cause \in {"conversion", "timeout"})
    => ~wf.threadExists

\* C10: a 2-page pdf or docx, "post here", no external call fails: no thread
\* creation call is made, the target is the source channel, and the workflow
\* ends Done with page 1 then page 2 sent to the channel, the status message
\* deleted and the source message deleted.
C10_PostHereScenario ==
  (view.kind \in {"pdf", "docx"} /\ view.npages = 2 /\ view.button_clicked
     /\ ~view.use_thread /\ ~wf.fault)
    => /\ ct.creates = 0
       /\ ~wf.threadExists
       /\ wf.target \in {"unset", "channel"}
       /\ wf.outcome # "Failed"
       /\ (wf.pc = "done"
             => /\ wf.outcome = "Done"
                /\ wf.sent = <<Msg("channel", "page", 1), Msg("channel", "page", 2)>>
                /\ ~wf.statusExists
                /\ wf.srcDeleted)

\* the scenario has run to its end
C10_Witness ==
  /\ view.kind \in {"pdf", "docx"}
  /\ view.npages = 2
  /\ view.button_clicked
  /\ ~view.use_thread
  /\ ~wf.fault
  /\ wf.pc = "done"

\* C11: a rate-limit response to the send of an artifact (pdf, docx, image
\* batch, video) is followed by exactly one retry of that artifact; outside
\* the wait for a retry, as many retries were made as rate-limit responses
\* were received.
C11_RateLimitRetried ==
  (view.kind \in RetryKinds /\ wf.pc # "page_retry")
    => wf.retries = wf.rl

\* C12: once the send of artifact i failed with an error other than a rate
\* limit, no page or segment with a greater ordinal is sent and the workflow
\* does not end Done.
C12_ErrorStopsDelivery ==
  wf.failedAt > 0
    => /\ \A j \in 1..Len(wf.sent) :
            wf.sent[j].item \in {"page", "segment"} => wf.sent[j].n <= wf.failedAt
       /\ wf.outcome # "Done"

StatusFinal ==
  \/ ~wf.statusExists
  \/ wf.status \in {"mention", "mention_partial", "warning", "error",
                     "perm_error", "timeout_error", "error_large"}

\* C16: once a button press was accepted, the workflow eventually ends with
\* the status message in a final state.
C16_StatusFinalized ==
  view.button_clicked ~> (wf.pc = "done" /\ StatusFinal)

\* C17: a workflow that Failed while delivering, while segmenting a large
\* video or while finalizing (its except clause ran to its end) has left no
\* thread it created.
C17_NoOrphanThread ==
  (wf.outcome = "Failed" /\ ~wf.escaped
     /\ (wf.cause \in {"permission", "delivery", "finalize"} \/ wf.exc = "large"))
    => ~wf.threadExists

\* C18: a failure to create the thread is never what makes a workflow end
\* Failed, and when create_thread_with_retry returned None the content that
\* was delivered went to the original channel.
C18_FallbackNotFatal ==
  /\ (view.use_thread /\ wf.outcome = "Failed") => wf.cause # "thread_creation"
  /\ (view.use_thread /\ ct.ret = "none")
       => \A j \in 1..Len(wf.sent) : wf.sent[j].to = "channel"

\* C19: when an edit of the status message to its final content raised
\* NotFound (and no send to the channel failed after it), no exception leaves
\* the workflow, and the content (a final message or an error text) was sent
\* to the original channel instead.
C19_StatusGoneRecovered ==
  (wf.statusGone /\ ~wf.resendFailed /\ wf.pc = "done")
    => /\ ~wf.escaped
       /\ (wf.outcome = "Failed" \/ wf.final_message \in {"mention", "warning"})
            => \E j \in 1..Len(wf.sent) :
                 /\ wf.sent[j].to = "channel"
                 /\ wf.sent[j].item \in {"final_text", "error_text"}

\* C20: a workflow that Failed with a conversion failure (its except clause
\* ran to its end, nobody else deleted the status message) shows the error
\* on the status message, has deleted the source message and has left no
\* thread.
C20_ConversionFailureCleanup ==
  (wf.outcome = "Failed" /\ wf.cause = "conversion" /\ ~wf.escaped
     /\ ~wf.statusGone)
    => /\ wf.statusExists
       /\ wf.status \in {"error", "error_large"}
       /\ wf.srcDeleted
       /\ ~wf.threadExists

\* C21: when a pdf or video workflow has ended, the id of its item is no
\* longer in the handler's processed set.
C21_InFlightReleased ==
  (view.kind \in {"pdf", "video"} /\ wf.pc = "done") => ~wf.inflight

\* C22: in the pdf, docx and video workflows the payload is converted before
\* the thread is created: when the conversion fails, no thread-creation call
\* has been made.
C22_ConvertBeforeThread ==
  (view.kind \in {"pdf", "docx", "video"} /\ wf.cause = "conversion")
    => ct.creates = 0

C28_NotificationHarmless ==
  /\ ct.notifDeleted <= 1
  /\ (view.kind \in RetryKinds /\ ct.creates > ct.forbids + ct.others)
       => /\ ct.creates = ct.forbids + 1
          /\ ct.others = 0
          /\ wf.pc \notin {"ct_call", "ct_sleep"}
          /\ (wf.pc # "ct_notify" => ct.ret = "thread")

\* the first creation call succeeded and the scan for the notification
\* raised: the caller got the thread, no message was deleted
C28_Witness ==
  /\ view.kind \in RetryKinds
  /\ wf.pc = "ct_ret"
  /\ ct.creates = 1
  /\ ct.ret = "thread"
  /\ ct.notifDeleted = 0
  /\ wf.fault

\* an artifact, or a warning that accompanies the artifacts
IsDelivered(m) == IsArtifact(m) \/ m.item \in {"warn", "segment_failed"}

\* C29: every artifact and every trailing warning of a workflow was sent to
\* the workflow's target, and the target does not change once the first of
\* them was sent; also when a video's direct upload was rejected and the
\* segments are sent instead.
C29_TargetFixed ==
  /\ [](\A j \in 1..Len(wf.sent) :
          IsDelivered(wf.sent[j]) => wf.sent[j].to = wf.target)
  /\ [][(\E j \in 1..Len(wf.sent) : IsDelivered(wf.sent[j]))
         => wf'.target = wf.target]_vars

\* a video whose direct upload to the new thread went through but whose
\* "do not share" warning was rejected: the segments followed the file to
\* the thread
C29_Witness ==
  /\ view.kind = "video"
  /\ wf.small
  /\ wf.target = "thread"
  /\ \E j \in 1..Len(wf.sent) : wf.sent[j].item = "file"
  /\ \E j \in 1..Len(wf.sent) : wf.sent[j].item = "segment"

\* the status message is deleted or shows the mention of the thread or the
\* fallback warning
StatusSuccess ==
  \/ ~wf.statusExists
  \/ wf.status \in {"mention", "warning"}

\* C30: a deletion of the source message that raises discord.Forbidden
\* enters no except clause, changes neither the status message nor what was
\* sent, and ends the workflow Done (or leaves only the final edit of the
\* status message to do); when every artifact had been delivered the
\* workflow ends Done with the status message in its final state of success.
C30_DeleteForbiddenHarmless ==
  /\ [][~wf.delForbidden /\ wf'.delForbidden
         => /\ wf'.exc = "none"
            /\ wf'.status = wf.status
            /\ wf'.statusExists = wf.statusExists
            /\ wf'.sent = wf.sent
            /\ \/ wf'.pc = "done" /\ wf'.outcome = "Done"
               \/ wf'.pc = "upload_status" /\ wf'.outcome = "none"]_vars
  /\ [](wf.delForbidden /\ wf.pc = "done" /\ wf.exc = "none"
           /\ wf.failedAt = 0 /\ wf.rl = 0
          => wf.outcome = "Done" /\ StatusSuccess)

\* a video posted to a new thread by the direct upload: the deletion of the
\* source message was refused, the status message then got the mention of
\* the thread
C30_Witness ==
  /\ view.kind = "video"
  /\ wf.delForbidden
  /\ wf.pc = "done"
  /\ wf.outcome = "Done"
  /\ wf.status = "mention"
  /\ ~wf.srcDeleted
  /\ \A j \in 1..Len(wf.sent) : wf.sent[j].item # "segment"

\* C32: the source message is deleted only when every artifact of the item
\* was delivered: in a terminal state in which the source message is deleted
\* (here for a video that went to the segmented path at once) no send of a
\* page or segment has failed and no "failed to upload segment" note was
\* posted.
C32_SourceKept ==
  (wf.pc = "done" /\ wf.srcDeleted /\ ~wf.small) =>
    /\ wf.failedAt = 0
    /\ wf.succ = view.npages
    /\ \A j \in 1..Len(wf.sent) : wf.sent[j].item # "segment_failed"

\* C33: a status message of the YouTube workflow that shows the final
\* confirmation or an error text when the workflow has ended is not removed
\* afterwards.
C33_TimeoutSparesStatus ==
  [][(/\ view.kind = "youtube"
      /\ wf.pc = "done"
      /\ wf.statusExists
      /\ wf.status \in {"mention", "error"}) => wf'.statusExists]_vars

\* creation calls of this workflow that returned a thread
Created == ct.creates - ct.forbids - ct.others

\* C35: one workflow creates at most one thread, and a creation call is
\* issued only when every earlier call of the workflow failed, whatever the
\* settle delay and the notification scan did.
C35_OneThread ==
  /\ [](Created <= 1)
  /\ [][ct'.creates > ct.creates => Created = 0]_vars

\* create_thread_with_retry returned the thread of its second call, after a
\* first call that raised discord.Forbidden, and the notification scan
\* had run
C35_Witness ==
  /\ wf.pc = "ct_ret"
  /\ ct.ret = "thread"
  /\ ct.creates = 2
  /\ ct.forbids = 1
  /\ Created = 1

\* C36: once the single transcoded file was uploaded, handle_large_video is
\* not entered and no segment is delivered.
C36_FileOrSegments ==
  (\E j \in 1..Len(wf.sent) : wf.sent[j].item = "file")
    => /\ wf.pc \notin {"large", "seg", "seg_note", "large_warn",
                         "large_status", "large_del"}
       /\ \A j \in 1..Len(wf.sent) : wf.sent[j].item # "segment"

\* C38: a docx, image-batch or YouTube workflow that failed in its
\* `except Exception' clause leaves no thread it created, also when the edit
\* of the status message to the error text raised.
C38_RollbackDespiteEdit ==
  (/\ view.kind \in {"docx", "image", "youtube"}
   /\ wf.pc = "done"
   /\ wf.outcome = "Failed"
   /\ wf.exc = "generic"
   /\ wf.escaped) => ~wf.threadExists

\* ==================== properties: the dispatcher (SpecDispatch) ============

\* C7: one run of on_message starts at most one workflow for its message.
C7_AtMostOneWorkflow == \A t \in Runs : disp.began[t] <= 1

\* C8 as stated: a handler called while the item's id is in its processed set
\* presents nothing, returns True and sends nothing.
C8_NoSideEffects ==
  (disp.last.handler \in {"pdf", "mp4"} /\ disp.last.inflight)
    => /\ ~disp.last.prompt
       /\ disp.last.ret
       /\ ~disp.last.raised
       /\ disp.last.notice = 0

\* C8 amended: a handler called while the item's id is in its processed set
\* presents no options view and starts no workflow; handle_pdf returns True
\* and sends nothing; handle_mp4 replies once that the video was already
\* processed and returns True when that reply was sent.
C8_NoSecondPrompt ==
  (disp.last.handler \in {"pdf", "mp4"} /\ disp.last.inflight)
    => /\ ~disp.last.prompt
       /\ (disp.last.handler = "pdf"
             => disp.last.ret /\ ~disp.last.raised /\ disp.last.notice = 0)
       /\ (disp.last.handler = "mp4" /\ ~disp.last.raised
             => disp.last.ret /\ disp.last.notice = 1)

\* a message with a pdf and a video but no image batch: the second run of
\* on_message met the pdf id and the video id in their sets; there is still
\* one pdf view and one video view, and the video handler replied
C8_Witness ==
  /\ disp.msg.nImages = 0
  /\ disp.last.handler = "mp4"
  /\ disp.last.inflight
  /\ disp.last.notice = 1
  /\ disp.pdfSet
  /\ disp.prompts["pdf"] = 1
  /\ disp.prompts["video"] = 1

\* how run t of on_message came to the handler it calls next: `ret' is the
\* value the handler just called returned
PriorityStep(t) ==
  LET from == disp.dpc[t]
      to == disp'.dpc[t]
      ret == disp'.last.ret
  IN  from # to =>
        /\ to = "image" => from = "idle" /\ HasAttachments(disp.msg)
        /\ to = "pdf" => from = "image" /\ ~ret
        /\ to = "docx" => from = "pdf" /\ ~ret
        /\ to = "mp4" => from \in {"idle", "image", "pdf", "docx"}
        /\ to = "youtube" => from = "mp4" /\ ~ret
        /\ to = "referral" => from = "youtube" /\ ~ret

\* C15: on_message tries the attachment handlers in the order image batch,
\* pdf, docx and the text / link handlers in the order video, YouTube link,
\* referral link; a handler is called only directly after the handler before
\* it in its chain returned False, so only when every handler before it in
\* the chain reported the message as not handled.
C15_PriorityOrder == [][\A t \in Runs : PriorityStep(t)]_vars

\* one run of on_message for a message with a docx attachment went through
\* both chains to their ends: the image-batch and pdf handlers reported
\* nothing, the docx handler presented its view, and the video and YouTube
\* handlers returned False before the referral handler was called
C15_Witness ==
  /\ disp.dpc[1] = "end"
  /\ \A t \in Runs : t > 1 => disp.dpc[t] = "idle"
  /\ disp.msg.docx
  /\ disp.prompts["image"] = 0
  /\ disp.prompts["pdf"] = 0
  /\ disp.prompts["docx"] = 1
  /\ disp.last.handler = "referral"

\* the latest handler call found a permission missing and sent its warning
\* (a warning that is not the one about the size of the file)
LastDenied ==
  /\ disp.last.notice = 1
  /\ \/ disp.last.handler = "image"
     \/ disp.last.handler = "pdf" /\ ~disp.last.inflight /\ ~disp.msg.pdfBig
     \/ disp.last.handler = "docx" /\ ~disp.msg.docxBig

\* C26: a handler whose pre-check found a permission missing, and which sent
\* its warning, has presented no options view and has left its processed set
\* as it was; and the handler that on_message calls next in the same chain
\* presents no options view (stated for the first run of on_message, while
\* no other run has begun, so that the latest call is a call of that run).
C26_PrecheckStops ==
  /\ [](LastDenied
          => /\ ~disp.last.prompt
             /\ (disp.last.handler = "pdf" => ~disp.pdfSet))
  /\ [][(/\ LastDenied
          /\ disp.dpc[1] \in {"pdf", "docx"}
          /\ \A t \in Runs : t > 1 => disp.dpc[t] = "idle"
          /\ disp'.dpc[1] # disp.dpc[1])
         => ~disp'.last.prompt]_vars

\* C37: a message the bot wrote itself (a page or a video file it posted,
\* the YouTube URL it reposted, a status text) starts nothing: no handler is
\* called for it, no options view or status message is presented and no
\* workflow begins, in any run of on_message.
C37_OwnMessagesIgnored ==
  disp.msg.fromBot =>
    /\ \A k \in AllKinds : disp.prompts[k] = 0
    /\ \A t \in Runs : disp.began[t] = 0 /\ disp.dpc[t] \in {"idle", "end"}
    /\ disp.last.handler = "none"
    /\ ~disp.pdfSet /\ ~disp.fileSet

\* on_message ran to its end for the YouTube URL the bot reposted
C37_Witness ==
  /\ disp.msg.fromBot
  /\ disp.msg.youtube
  /\ \A t \in Runs : disp.dpc[t] = "end"

\* ==================== properties: thread names (SpecName) ==================

\* C9: in every handler, a name of more than 100 characters becomes its first
\* 97 characters followed by "...", 100 characters in all; a name of at most
\* 100 characters is used unchanged.
C9_Truncation ==
  tn.phase = "named"
    => IF Len(tn.full) > 100
       THEN /\ Len(tn.name) = 100
            /\ \A i \in 1..97 : tn.name[i] = tn.full[i]
            /\ \A i \in 98..100 : tn.name[i] = "."
       ELSE tn.name = tn.full

\* a name of more than 100 characters was truncated
C9_Witness ==
  /\ tn.phase = "named"
  /\ Len(tn.full) > 100
  /\ Len(tn.name) = 100

\* ==================== properties: referral metadata (SpecMeta) =============

\* every strategy that was available failed
AllFailed ==
  /\ md.out[1] \in {"fail", "unparsed"}
  /\ md.out[2] \in {"fail", "unparsed"}
  /\ md.selenium => md.out[3] \in {"fail", "unparsed"}

\* C14: whatever the three fetch strategies yield, get_website_metadata
\* returns a metadata dictionary with a non-empty title and domain; when
\* every strategy failed it carries an error tag; the embed built from it
\* has a title.
C14_MetadataComplete ==
  /\ md.phase \in {"returned", "embedded"}
       => /\ md.metadata.some
          /\ md.metadata.title # ""
          /\ md.metadata.domain # ""
          /\ (AllFailed => md.metadata.error # "")
  /\ md.phase = "embedded" => md.embed.built /\ md.embed.title # ""

\* every strategy was tried and failed, and the embed was built
C14_Witness ==
  /\ md.phase = "embedded"
  /\ md.tried = {1, 2, 3}
  /\ AllFailed
  /\ md.metadata.error # ""

\* the page a strategy fetched has a title
HasTitle(o) == o \in {"title", "full"}

\* C39: the strategies are called in the order standard, mobile, headless,
\* none is skipped over; the mobile one is called only when the standard
\* page is missing or has no title; the headless one only when it is
\* available and, after the mobile step, the page or the title is still
\* missing; the placeholder with the error tag is returned only when no
\* strategy that was called yielded a title.
C39_EscalationOrder ==
  /\ md.tried \in {{}, {1}, {1, 2}, {1, 2, 3}}
  /\ 2 \in md.tried => (md.out[1] = "fail" \/ ~HasTitle(md.out[1]))
  /\ 3 \in md.tried
       => /\ md.selenium
          /\ \/ md.out[2] = "fail"
             \/ ~HasTitle(md.out[1]) /\ ~HasTitle(md.out[2])
  /\ md.metadata.error # "" => \A i \in md.tried : ~HasTitle(md.out[i])

\* the standard and the mobile page had no title, the headless browser was
\* called and its page had one: the metadata returned is that of the
\* headless browser, without an error tag
C39_Witness ==
  /\ md.phase = "returned"
  /\ md.tried = {1, 2, 3}
  /\ md.out[1] = "notitle"
  /\ md.out[2] = "bare"
  /\ HasTitle(md.out[3])
  /\ md.metadata.title = Strategies[3]
  /\ md.metadata.error = ""

\* ==================== properties: video segments (SpecSegments) ============

\* floor(a / b) for a >= 0, b > 0, by repeated subtraction
RECURSIVE Floor(_, _)
Floor(a, b) == IF a < b THEN 0 ELSE 1 + Floor(a - b, b)

\* C24: the number of segments is
\*   min(20, max(max(6, min(floor(sizeMB / 8), 15)), floor(seconds / 180)))
\* and so lies between 6 and 20.
C24_SegmentCount ==
  sg.phase \notin {"off", "probe", "failed"}
    => /\ LET bySize == Floor(sg.size2, 16)
              byDur == Floor(sg.dur2, 360)
              a == IF bySize < 15 THEN bySize ELSE 15
              b == IF a > 6 THEN a ELSE 6
              c == IF b > byDur THEN b ELSE byDur
          IN  sg.segments = IF c < 20 THEN c ELSE 20
       /\ sg.segments >= 6
       /\ sg.segments <= 20

\* a video of more than an hour whose duration alone asks for more than 20
\* segments
C24_Witness ==
  /\ sg.phase = "segment"
  /\ DurationSegments(sg.dur2) > 20
  /\ sg.segments = 20

\* C25: no segment is compressed more than twice after it was cut, and no
\* file that goes to the upload is larger than MAX_SEGMENT_SIZE_MB.
C25_SegmentWithinBudget ==
  /\ sg.passes <= 2
  /\ sg.maxPasses <= 2
  /\ ~sg.over


\* ============ properties: two workflows in one channel (SpecChannel) =======

\* C31: the step in which a workflow fails changes nothing of any other
\* workflow (its status message, its thread, what it delivered, its
\* messages, its in-flight entry), and a message that arrives is accepted
\* whatever the workflows before it did.
C31_FailureContained ==
  /\ [][\A i \in Wfs :
          (ch.w[i].outcome # "Failed" /\ ch'.w[i].outcome = "Failed")
            => \A j \in Wfs \ {i} :
                 /\ ch'.w[j] = ch.w[j]
                 /\ SelectSeq(ch'.hist, LAMBDA m : m.owner = j)
                      = SelectSeq(ch.hist, LAMBDA m : m.owner = j)
                 /\ (j \in ch'.pdfSet) = (j \in ch.pdfSet)
                 /\ (j \in ch'.fileSet) = (j \in ch.fileSet)]_vars
  /\ [](\A j \in Wfs : ch.w[j].pc = "absent" => ENABLED ChArrive(j))

\* a pdf workflow failed and rolled its thread back while another pdf
\* workflow holds its thread, its status message and its in-flight entry
C31_Witness ==
  /\ ch.w[1].kind = "pdf" /\ ch.w[1].outcome = "Failed"
  /\ ch.w[1].thread = "deleted"
  /\ 1 \notin ch.pdfSet
  /\ ch.w[2].kind = "pdf" /\ ch.w[2].pc = "deliver"
  /\ ch.w[2].thread = "open" /\ ch.w[2].statusExists
  /\ 2 \in ch.pdfSet

\* C34: the notification scan of a workflow deletes no status message,
\* fallback warning or thread anchor of another workflow.
C34_ScanSparesOthers ==
  \A d \in ch.lost :
    d.owner # d.by => d.role \notin {"status", "anchor", "resent"}

====
